---- MODULE Spec2Model ----
(***************************************************************************)
(* A model of rindexer's storage layer (rindexer_core/src/database/        *)
(* postgres.rs): the type mapper, the value codec, the schema and query    *)
(* generator, and the pooled storage client with its transactions.         *)
(*                                                                         *)
(* Text is modelled as a sequence of one-character strings wherever the    *)
(* code inspects it (starts_with, ends_with, trim_end_matches, contains).  *)
(***************************************************************************)
EXTENDS Integers, Sequences, FiniteSets, TLC

VARIABLES
    applied,    \* the last pure function applied, with its input and result
    manifest,   \* the loaded configuration (immutable after load)
    db,         \* the database: schemas, tables and checkpoint rows
    setup,      \* setup_postgres: where it stands, its loop index, the run number
    ddlCount,   \* per indexer, how many create-schema batches were executed
    lastOp,     \* the last operation on the database and how it ended
    idle,       \* the pool: the connections not checked out
    srv,        \* per connection, the server's session: its open transaction
    visible,    \* the committed rows, as every reader sees them
    call,       \* per caller, the storage-client call it is in
    handle,     \* per caller, the PostgresTransaction it got from transaction()
    crashed     \* the process was aborted

pureVars == <<applied>>
schemaVars == <<manifest, db, setup, ddlCount, lastOp>>
clientVars == <<idle, srv, visible, call, handle, crashed>>
vars == <<applied, manifest, db, setup, ddlCount, lastOp,
          idle, srv, visible, call, handle, crashed>>

(***************************************************************************)
(* Text helpers: Rust's str methods as the type mapper uses them.          *)
(***************************************************************************)
StartsWith(s, p) == Len(s) >= Len(p) /\ SubSeq(s, 1, Len(p)) = p

EndsWith(s, p) == Len(s) >= Len(p) /\ SubSeq(s, Len(s) - Len(p) + 1, Len(s)) = p

Contains(s, p) == \E i \in 1..(Len(s) - Len(p) + 1) : SubSeq(s, i, i + Len(p) - 1) = p

\* str::trim_end_matches removes the suffix repeatedly, not once.
RECURSIVE TrimEndMatches(_, _)
TrimEndMatches(s, p) ==
    IF p # <<>> /\ EndsWith(s, p)
    THEN TrimEndMatches(SubSeq(s, 1, Len(s) - Len(p)), p)
    ELSE s

(***************************************************************************)
(* Interface type strings.                                                 *)
(***************************************************************************)
s_address == <<"a","d","d","r","e","s","s">>
s_bool == <<"b","o","o","l">>
s_int256 == <<"i","n","t","2","5","6">>
s_uint256 == <<"u","i","n","t","2","5","6">>
s_int64 == <<"i","n","t","6","4">>
s_uint64 == <<"u","i","n","t","6","4">>
s_int128 == <<"i","n","t","1","2","8">>
s_uint128 == <<"u","i","n","t","1","2","8">>
s_int32 == <<"i","n","t","3","2">>
s_uint32 == <<"u","i","n","t","3","2">>
s_string == <<"s","t","r","i","n","g">>
s_bytes == <<"b","y","t","e","s">>
s_bytes32 == <<"b","y","t","e","s","3","2">>
s_int8 == <<"i","n","t","8">>
s_int16 == <<"i","n","t","1","6">>
s_uint8 == <<"u","i","n","t","8">>
s_uint16 == <<"u","i","n","t","1","6">>
s_uint24 == <<"u","i","n","t","2","4">>
s_tuple == <<"t","u","p","l","e">>
s_bytesfoo == <<"b","y","t","e","s","f","o","o">>
s_arr == <<"[","]">>
s_fixed2 == <<"[","2","]">>

\* The base types of the mapping table (bytes* stands with bytes and bytes32).
ListedBaseTypes ==
    { s_address, s_bool, s_int256, s_uint256, s_int64, s_uint64, s_int128,
      s_uint128, s_int32, s_uint32, s_string, s_bytes, s_bytes32, s_int8,
      s_int16, s_uint8, s_uint16 }

\* Base strings outside the table: an unlisted width, a tuple, and a string that
\* merely starts with "bytes".
UnlistedBaseTypes == { s_uint24, s_tuple, s_bytesfoo }

\* No marker, one array marker, a nested array, a fixed-size array, and an array
\* of fixed-size arrays.
TypeSuffixes == { <<>>, s_arr, s_arr \o s_arr, s_fixed2, s_fixed2 \o s_arr }

AbiTypeStrings ==
    { b \o suf : b \in ListedBaseTypes \cup UnlistedBaseTypes, suf \in TypeSuffixes }

\* The supported set of the type mapper: a listed base type, alone or followed by
\* one trailing array marker.
SupportedTypeStrings ==
    { b \o suf : b \in ListedBaseTypes, suf \in { <<>>, s_arr } }

(***************************************************************************)
(* Type mapper.                                                            *)
(***************************************************************************)
VarcharLen == 78
AddressCharLen == 42

SqlType(name, len) == [name |-> name, len |-> len]
Unsupported == [ok |-> FALSE, sql |-> SqlType("", 0), array |-> FALSE]

\* A plausible slip: the 32-bit integers share the 16-bit arm.
BaseSqlType_Int32AsSmallint(base_type) ==
    CASE base_type = s_address -> SqlType("CHAR", AddressCharLen)
      [] base_type = s_bool -> SqlType("BOOLEAN", 0)
      [] base_type \in {s_int256, s_uint256} -> SqlType("VARCHAR", VarcharLen)
      [] base_type \in {s_int64, s_uint64, s_int128, s_uint128} -> SqlType("NUMERIC", 0)
      [] base_type = s_string -> SqlType("TEXT", 0)
      [] StartsWith(base_type, s_bytes) -> SqlType("BYTEA", 0)
      [] base_type \in {s_uint8, s_uint16, s_int8, s_int16, s_int32, s_uint32} ->
            SqlType("SMALLINT", 0)
      [] OTHER -> SqlType("", 0)

\* The match of solidity_type_to_db_type on the base type; "" is the panic arm.
BaseSqlType(base_type) ==
    CASE base_type = s_address -> SqlType("CHAR", AddressCharLen)
      [] base_type = s_bool -> SqlType("BOOLEAN", 0)
      [] base_type \in {s_int256, s_uint256} -> SqlType("VARCHAR", VarcharLen)
      [] base_type \in {s_int64, s_uint64, s_int128, s_uint128} -> SqlType("NUMERIC", 0)
      [] base_type \in {s_int32, s_uint32} -> SqlType("INTEGER", 0)
      [] base_type = s_string -> SqlType("TEXT", 0)
      [] StartsWith(base_type, s_bytes) -> SqlType("BYTEA", 0)
      [] base_type \in {s_uint8, s_uint16, s_int8, s_int16} -> SqlType("SMALLINT", 0)
      [] OTHER -> SqlType("", 0)

solidity_type_to_db_type(abi_type) ==
    LET is_array == EndsWith(abi_type, s_arr)
        base_type == TrimEndMatches(abi_type, s_arr)
        sql_type == BaseSqlType(base_type)
    IN  IF sql_type.name = ""
        THEN Unsupported
        ELSE [ok |-> TRUE, sql |-> sql_type, array |-> is_array]

\* The variant tag solidity_type_to_ethereum_sql_type_wrapper selects; "None" when
\* it returns None.
solidity_type_to_ethereum_sql_type_wrapper(abi_type) ==
    CASE abi_type = s_string -> "String"
      [] abi_type = s_string \o s_arr -> "VecString"
      [] abi_type = s_address -> "Address"
      [] abi_type = s_address \o s_arr -> "VecAddress"
      [] abi_type = s_bool -> "Bool"
      [] abi_type = s_bool \o s_arr -> "VecBool"
      [] abi_type \in {s_int256, s_uint256} -> "U256"
      [] abi_type \in {s_int256 \o s_arr, s_uint256 \o s_arr} -> "VecU256"
      [] abi_type \in {s_int128, s_uint128} -> "U128"
      [] abi_type \in {s_int128 \o s_arr, s_uint128 \o s_arr} -> "VecU128"
      [] abi_type \in {s_int64, s_uint64} -> "U64"
      [] abi_type \in {s_int64 \o s_arr, s_uint64 \o s_arr} -> "VecU64"
      [] abi_type \in {s_int32, s_uint32} -> "U32"
      [] abi_type \in {s_int32 \o s_arr, s_uint32 \o s_arr} -> "VecU32"
      [] abi_type \in {s_int16, s_uint16} -> "U16"
      [] abi_type \in {s_int16 \o s_arr, s_uint16 \o s_arr} -> "VecU16"
      [] abi_type \in {s_int8, s_uint8} -> "U8"
      [] abi_type \in {s_int8 \o s_arr, s_uint8 \o s_arr} -> "VecU8"
      [] StartsWith(abi_type, s_bytes) /\ Contains(abi_type, s_arr) -> "VecBytes"
      [] StartsWith(abi_type, s_bytes) -> "Bytes"
      [] OTHER -> "None"

(***************************************************************************)
(* Unsigned integers of the ethers types.  A value is its big-endian       *)
(* sequence of 16-bit limbs (a U256 has 16 of them), so that no step of    *)
(* the arithmetic leaves the range of 32-bit integers.                    *)
(***************************************************************************)
LimbBase == 2^16

LimbsOf(variant) ==
    CASE variant \in {"U8", "VecU8", "U16", "VecU16"} -> 1
      [] variant \in {"U32", "VecU32"} -> 2
      [] variant \in {"U64", "VecU64"} -> 4
      [] variant \in {"U128", "VecU128"} -> 8
      [] variant \in {"U256", "VecU256"} -> 16
      [] variant \in {"U512", "VecU512"} -> 32

UintZero(n) == [i \in 1..n |-> 0]
UintOne(n) == [i \in 1..n |-> IF i = n THEN 1 ELSE 0]
UintMax(n) == [i \in 1..n |-> LimbBase - 1]
\* u8 is the one width that does not fill its limb.
U8Max == <<255>>

IsZero(limbs) == \A i \in 1..Len(limbs) : limbs[i] = 0

\* Long division of a limb sequence by a small divisor:
\* [q |-> quotient, r |-> remainder].
RECURSIVE DivStep(_, _, _, _, _)
DivStep(limbs, d, i, rem, acc) ==
    IF i > Len(limbs)
    THEN [q |-> acc, r |-> rem]
    ELSE LET cur == rem * LimbBase + limbs[i]
         IN  DivStep(limbs, d, i + 1, cur % d, Append(acc, cur \div d))

DivSmall(limbs, d) == DivStep(limbs, d, 1, 0, <<>>)

DigitChars == <<"0", "1", "2", "3", "4", "5", "6", "7", "8", "9">>
DigitChar(d) == DigitChars[d + 1]

\* The digits are produced four at a time (division by 10^4), each group padded
\* with zeros to four characters.
ChunkWidth == 4
ChunkDigits(r) ==
    [j \in 1..ChunkWidth |-> DigitChar((r \div 10^(ChunkWidth - j)) % 10)]

RECURSIVE DecimalChunks(_)
DecimalChunks(limbs) ==
    IF IsZero(limbs)
    THEN <<>>
    ELSE LET d == DivSmall(limbs, 10^ChunkWidth)
         IN  DecimalChunks(d.q) \o ChunkDigits(d.r)

StripLeadingZeros(text) ==
    LET first == CHOOSE i \in 1..Len(text) :
                    /\ text[i] # "0"
                    /\ \A j \in 1..(i - 1) : text[j] = "0"
    IN  SubSeq(text, first, Len(text))

\* Display of an unsigned integer (to_string): its decimal digits, most
\* significant first, without leading zeros, "0" for zero.
UintToString(limbs) ==
    IF IsZero(limbs) THEN <<"0">> ELSE StripLeadingZeros(DecimalChunks(limbs))

(***************************************************************************)
(* Hashes, addresses and byte strings: sequences of bytes.                 *)
(***************************************************************************)
HexChars == <<"0", "1", "2", "3", "4", "5", "6", "7", "8", "9",
              "a", "b", "c", "d", "e", "f">>

RECURSIVE HexOfBytes(_)
HexOfBytes(bytes) ==
    IF bytes = <<>>
    THEN <<>>
    ELSE <<HexChars[(Head(bytes) \div 16) + 1], HexChars[(Head(bytes) % 16) + 1]>>
         \o HexOfBytes(Tail(bytes))

\* format!("{:?}") of a fixed hash or an address: 0x and every byte in hex.
HashDebug(bytes) == <<"0", "x">> \o HexOfBytes(bytes)

\* format!("{:?}") of ethers' Bytes: Bytes(0x..).
BytesDebug(bytes) == <<"B", "y", "t", "e", "s", "(">> \o HashDebug(bytes) \o <<")">>

BytesOf(variant) ==
    CASE variant \in {"H128", "VecH128"} -> 16
      [] variant \in {"H160", "VecH160", "Address", "VecAddress"} -> 20
      [] variant \in {"H256", "VecH256"} -> 32
      [] variant \in {"H512", "VecH512"} -> 64

(***************************************************************************)
(* Value codec: EthereumSqlTypeWrapper and its ToSql.                      *)
(***************************************************************************)
UintScalars == {"U8", "U16", "U32", "U64", "U128", "U256", "U512"}
HashScalars == {"H128", "H160", "H256", "H512", "Address"}
ScalarVariants == UintScalars \cup HashScalars \cup {"Bool", "String", "Bytes"}

UintVecs == {"VecU8", "VecU16", "VecU32", "VecU64", "VecU128", "VecU256", "VecU512"}
HashVecs == {"VecH128", "VecH160", "VecH256", "VecH512", "VecAddress"}
VecVariants == UintVecs \cup HashVecs \cup {"VecBool", "VecString", "VecBytes"}

\* What a to_sql call leaves behind: IsNull::Yes or IsNull::No, the bytes written
\* to out, and whether the call panicked instead of returning.
Wire(kind, body) == [kind |-> kind, body |-> body]
NothingWritten == Wire("none", <<>>)
SqlNull == [null |-> TRUE, out |-> NothingWritten, panic |-> FALSE]
Written(w) == [null |-> FALSE, out |-> w, panic |-> FALSE]
Panicked == [null |-> FALSE, out |-> NothingWritten, panic |-> TRUE]

\* <[T] as ToSql>::to_sql of postgres-types: an array of the member encodings;
\* it panics ("expected array type") when the target type is no array type.
SliceToSql(members, ty) ==
    IF ty.array THEN Written(Wire("array", members)) ELSE Panicked

\* A plausible slip: only the low 64 bits of a U256 are rendered (low_u64).
U256Text_LowU64(value) == UintToString(SubSeq(value, Len(value) - 3, Len(value)))

\* The U256 arm: value.to_string() copied to out.
U256Text(value) == UintToString(value)

\* A plausible slip: the is_empty test left out of the VecBytes arm, so that an
\* empty input is written as an empty array literal.
to_sql_VecBytesUnchecked(variant, value, ty) ==
    CASE variant = "U64" -> Written(Wire("numeric", UintToString(value)))
      [] variant = "VecU64" ->
            LET results == [i \in 1..Len(value) |-> Wire("numeric", UintToString(value[i]))]
            IN  IF results = <<>> THEN SqlNull ELSE SliceToSql(results, ty)
      [] variant = "U128" -> Written(Wire("text", UintToString(value)))
      [] variant = "VecU128" ->
            LET results == [i \in 1..Len(value) |-> Wire("text", UintToString(value[i]))]
            IN  IF results = <<>> THEN SqlNull ELSE SliceToSql(results, ty)
      [] variant = "U256" -> Written(Wire("text", U256Text(value)))
      [] variant = "VecU256" ->
            LET results == [i \in 1..Len(value) |-> Wire("text", UintToString(value[i]))]
            IN  IF results = <<>> THEN SqlNull ELSE SliceToSql(results, ty)
      [] variant = "U512" -> Written(Wire("text", UintToString(value)))
      [] variant = "VecU512" ->
            LET results == [i \in 1..Len(value) |-> Wire("text", UintToString(value[i]))]
            IN  IF results = <<>> THEN SqlNull ELSE SliceToSql(results, ty)
      [] variant = "H128" -> Written(Wire("text", HashDebug(value)))
      [] variant = "VecH128" ->
            LET results == [i \in 1..Len(value) |-> Wire("text", HashDebug(value[i]))]
            IN  IF results = <<>> THEN SqlNull ELSE SliceToSql(results, ty)
      [] variant = "H160" -> Written(Wire("text", HashDebug(value)))
      [] variant = "VecH160" ->
            LET results == [i \in 1..Len(value) |-> Wire("text", HashDebug(value[i]))]
            IN  IF results = <<>> THEN SqlNull ELSE SliceToSql(results, ty)
      [] variant = "H256" -> Written(Wire("text", HashDebug(value)))
      [] variant = "VecH256" ->
            LET results == [i \in 1..Len(value) |-> Wire("text", HashDebug(value[i]))]
            IN  IF results = <<>> THEN SqlNull ELSE SliceToSql(results, ty)
      [] variant = "H512" -> Written(Wire("text", HashDebug(value)))
      [] variant = "VecH512" ->
            LET results == [i \in 1..Len(value) |-> Wire("text", HashDebug(value[i]))]
            IN  IF results = <<>> THEN SqlNull ELSE SliceToSql(results, ty)
      [] variant = "Address" -> Written(Wire("text", HashDebug(value)))
      [] variant = "VecAddress" ->
            LET results == [i \in 1..Len(value) |-> Wire("text", HashDebug(value[i]))]
            IN  IF results = <<>> THEN SqlNull ELSE SliceToSql(results, ty)
      [] variant = "Bool" -> Written(Wire("bool", IF value THEN <<1>> ELSE <<0>>))
      [] variant = "VecBool" ->
            LET results == [i \in 1..Len(value) |-> Wire("char", IF value[i] THEN <<1>> ELSE <<0>>)]
            IN  IF results = <<>> THEN SqlNull ELSE SliceToSql(results, ty)
      [] variant = "U16" -> Written(Wire("text", UintToString(value)))
      [] variant = "VecU16" ->
            LET results == [i \in 1..Len(value) |-> Wire("text", UintToString(value[i]))]
            IN  IF results = <<>> THEN SqlNull ELSE SliceToSql(results, ty)
      [] variant = "String" -> Written(Wire("text", value))
      [] variant = "VecString" ->
            LET results == [i \in 1..Len(value) |-> Wire("text", value[i])]
            IN  IF results = <<>> THEN SqlNull ELSE SliceToSql(results, ty)
      [] variant = "Bytes" -> Written(Wire("bytes", value))
      [] variant = "VecBytes" ->
            LET results == [i \in 1..Len(value) |-> Wire("text", BytesDebug(value[i]))]
            IN  SliceToSql(results, ty)
      [] variant = "U32" -> Written(Wire("text", UintToString(value)))
      [] variant = "VecU32" ->
            LET results == [i \in 1..Len(value) |-> Wire("text", UintToString(value[i]))]
            IN  IF results = <<>> THEN SqlNull ELSE SliceToSql(results, ty)
      [] variant = "U8" -> Written(Wire("text", UintToString(value)))
      [] variant = "VecU8" ->
            LET results == [i \in 1..Len(value) |-> Wire("text", UintToString(value[i]))]
            IN  IF results = <<>> THEN SqlNull ELSE SliceToSql(results, ty)

\* ToSql for EthereumSqlTypeWrapper, arm by arm in the order of the source.
to_sql(variant, value, ty) ==
    CASE variant = "U64" -> Written(Wire("numeric", UintToString(value)))
      [] variant = "VecU64" ->
            LET results == [i \in 1..Len(value) |-> Wire("numeric", UintToString(value[i]))]
            IN  IF results = <<>> THEN SqlNull ELSE SliceToSql(results, ty)
      [] variant = "U128" -> Written(Wire("text", UintToString(value)))
      [] variant = "VecU128" ->
            LET results == [i \in 1..Len(value) |-> Wire("text", UintToString(value[i]))]
            IN  IF results = <<>> THEN SqlNull ELSE SliceToSql(results, ty)
      [] variant = "U256" -> Written(Wire("text", U256Text(value)))
      [] variant = "VecU256" ->
            LET results == [i \in 1..Len(value) |-> Wire("text", UintToString(value[i]))]
            IN  IF results = <<>> THEN SqlNull ELSE SliceToSql(results, ty)
      [] variant = "U512" -> Written(Wire("text", UintToString(value)))
      [] variant = "VecU512" ->
            LET results == [i \in 1..Len(value) |-> Wire("text", UintToString(value[i]))]
            IN  IF results = <<>> THEN SqlNull ELSE SliceToSql(results, ty)
      [] variant = "H128" -> Written(Wire("text", HashDebug(value)))
      [] variant = "VecH128" ->
            LET results == [i \in 1..Len(value) |-> Wire("text", HashDebug(value[i]))]
            IN  IF results = <<>> THEN SqlNull ELSE SliceToSql(results, ty)
      [] variant = "H160" -> Written(Wire("text", HashDebug(value)))
      [] variant = "VecH160" ->
            LET results == [i \in 1..Len(value) |-> Wire("text", HashDebug(value[i]))]
            IN  IF results = <<>> THEN SqlNull ELSE SliceToSql(results, ty)
      [] variant = "H256" -> Written(Wire("text", HashDebug(value)))
      [] variant = "VecH256" ->
            LET results == [i \in 1..Len(value) |-> Wire("text", HashDebug(value[i]))]
            IN  IF results = <<>> THEN SqlNull ELSE SliceToSql(results, ty)
      [] variant = "H512" -> Written(Wire("text", HashDebug(value)))
      [] variant = "VecH512" ->
            LET results == [i \in 1..Len(value) |-> Wire("text", HashDebug(value[i]))]
            IN  IF results = <<>> THEN SqlNull ELSE SliceToSql(results, ty)
      [] variant = "Address" -> Written(Wire("text", HashDebug(value)))
      [] variant = "VecAddress" ->
            LET results == [i \in 1..Len(value) |-> Wire("text", HashDebug(value[i]))]
            IN  IF results = <<>> THEN SqlNull ELSE SliceToSql(results, ty)
      [] variant = "Bool" -> Written(Wire("bool", IF value THEN <<1>> ELSE <<0>>))
      [] variant = "VecBool" ->
            LET results == [i \in 1..Len(value) |-> Wire("char", IF value[i] THEN <<1>> ELSE <<0>>)]
            IN  IF results = <<>> THEN SqlNull ELSE SliceToSql(results, ty)
      [] variant = "U16" -> Written(Wire("text", UintToString(value)))
      [] variant = "VecU16" ->
            LET results == [i \in 1..Len(value) |-> Wire("text", UintToString(value[i]))]
            IN  IF results = <<>> THEN SqlNull ELSE SliceToSql(results, ty)
      [] variant = "String" -> Written(Wire("text", value))
      [] variant = "VecString" ->
            LET results == [i \in 1..Len(value) |-> Wire("text", value[i])]
            IN  IF results = <<>> THEN SqlNull ELSE SliceToSql(results, ty)
      [] variant = "Bytes" -> Written(Wire("bytes", value))
      [] variant = "VecBytes" ->
            LET results == [i \in 1..Len(value) |-> Wire("text", BytesDebug(value[i]))]
            IN  IF results = <<>> THEN SqlNull ELSE SliceToSql(results, ty)
      [] variant = "U32" -> Written(Wire("text", UintToString(value)))
      [] variant = "VecU32" ->
            LET results == [i \in 1..Len(value) |-> Wire("text", UintToString(value[i]))]
            IN  IF results = <<>> THEN SqlNull ELSE SliceToSql(results, ty)
      [] variant = "U8" -> Written(Wire("text", UintToString(value)))
      [] variant = "VecU8" ->
            LET results == [i \in 1..Len(value) |-> Wire("text", UintToString(value[i]))]
            IN  IF results = <<>> THEN SqlNull ELSE SliceToSql(results, ty)

(***************************************************************************)
(* Inputs of the codec.                                                    *)
(***************************************************************************)
MaxArrayLen == 2

SeqsUpTo(S, n) == UNION { [1..k -> S] : k \in 0..n }

Pow2Limbs(n, k) ==
    [i \in 1..n |-> IF n - i = k \div 16 THEN 2^(k % 16) ELSE 0]

Pow2Minus1Limbs(n, k) ==
    [i \in 1..n |->
        IF n - i < k \div 16 THEN LimbBase - 1
        ELSE IF n - i = k \div 16 THEN 2^(k % 16) - 1
        ELSE 0]

\* limbs * m + a for a small m; the carry out of the top limb is the overflow.
RECURSIVE MulAddStep(_, _, _, _)
MulAddStep(limbs, m, i, carry) ==
    IF i = 0
    THEN [v |-> limbs, carry |-> carry]
    ELSE LET cur == limbs[i] * m + carry
         IN  MulAddStep([limbs EXCEPT ![i] = cur % LimbBase], m, i - 1,
                        cur \div LimbBase)

MulAdd(limbs, m, a) == MulAddStep(limbs, m, Len(limbs), a)

\* The limbs of a decimal numeral, a group of up to four digits at a time.
RECURSIVE LimbsOfDecimalFrom(_, _, _)
LimbsOfDecimalFrom(digits, i, acc) ==
    IF i > Len(digits)
    THEN acc
    ELSE LET last == IF i + 3 <= Len(digits) THEN i + 3 ELSE Len(digits)
             group[j \in (i - 1)..last] ==
                 IF j = i - 1 THEN 0 ELSE group[j - 1] * 10 + digits[j]
         IN  LimbsOfDecimalFrom(digits, last + 1,
                                MulAdd(acc, 10^(last - i + 1), group[last]).v)

LimbsOfDecimal(n, digits) == LimbsOfDecimalFrom(digits, 1, UintZero(n))

Pow10Limbs(n, k) == LimbsOfDecimal(n, <<1>> \o [j \in 1..k |-> 0])
NinesLimbs(n, k) == LimbsOfDecimal(n, [j \in 1..k |-> 9])

\* 256-bit values across the whole range: zero, one, the maximum, every power of
\* two and its predecessor, every power of ten and its predecessor.
U256Values ==
    { Pow2Limbs(16, k) : k \in 0..255 }
        \cup { Pow2Minus1Limbs(16, k) : k \in 0..255 }
        \cup { UintMax(16) }
        \cup { Pow10Limbs(16, k) : k \in 0..77 }
        \cup { NinesLimbs(16, k) : k \in 0..77 }

UintValues(variant) ==
    IF variant = "U256"
    THEN U256Values
    ELSE IF variant \in {"U8", "VecU8"}
    THEN { UintZero(1), UintOne(1), U8Max }
    ELSE { UintZero(LimbsOf(variant)), UintOne(LimbsOf(variant)),
           UintMax(LimbsOf(variant)) }

HashValues(variant) ==
    { [i \in 1..BytesOf(variant) |-> 0], [i \in 1..BytesOf(variant) |-> 255] }

TextValues == { <<>>, <<"a">>, <<"{", "}">> }
ByteValues == { <<>>, <<0>>, <<222, 173>> }

ScalarValues(variant) ==
    CASE variant \in UintScalars -> UintValues(variant)
      [] variant \in HashScalars -> HashValues(variant)
      [] variant = "Bool" -> BOOLEAN
      [] variant = "String" -> TextValues
      [] variant = "Bytes" -> ByteValues

MemberValues(variant) ==
    CASE variant \in UintVecs ->
            { UintZero(LimbsOf(variant)), UintMax(LimbsOf(variant)) }
      [] variant \in HashVecs -> HashValues(variant)
      [] variant = "VecBool" -> BOOLEAN
      [] variant = "VecString" -> { <<>>, <<"a">> }
      [] variant = "VecBytes" -> { <<>>, <<222, 173>> }

\* The column type handed to to_sql, as far as the code reads it: whether it is
\* an array type.
PgTypes == { [name |-> "TEXT", array |-> FALSE], [name |-> "TEXT", array |-> TRUE] }

(***************************************************************************)
(* Names.                                                                  *)
(***************************************************************************)
n_Transfer == <<"T","r","a","n","s","f","e","r">>
n_Paused == <<"P","a","u","s","e","d">>
n_TransferBatch == <<"T","r","a","n","s","f","e","r","B","a","t","c","h">>
n_from == <<"f","r","o","m">>
n_to == <<"t","o">>
n_value == <<"v","a","l","u","e">>
n_ids == <<"i","d","s">>
n_Token == <<"T","o","k","e","n">>
n_Vault == <<"V","a","u","l","t">>
n_MyIndexer == <<"M","y","I","n","d","e","x","e","r">>
n_Filter == <<"F","i","l","t","e","r">>
n_mainnet == <<"m","a","i","n","n","e","t">>
n_polygon == <<"p","o","l","y","g","o","n">>
n_rindexer_internal == <<"r","i","n","d","e","x","e","r","_","i","n","t","e","r","n","a","l">>
n_rindexer_id == <<"r","i","n","d","e","x","e","r","_","i","d">>
n_contract_address == <<"c","o","n","t","r","a","c","t","_","a","d","d","r","e","s","s">>
n_tx_hash == <<"t","x","_","h","a","s","h">>
n_block_number == <<"b","l","o","c","k","_","n","u","m","b","e","r">>
n_block_hash == <<"b","l","o","c","k","_","h","a","s","h">>

UpperChars == <<"A","B","C","D","E","F","G","H","I","J","K","L","M","N","O","P","Q","R","S","T","U","V","W","X","Y","Z">>
LowerChars == <<"a","b","c","d","e","f","g","h","i","j","k","l","m","n","o","p","q","r","s","t","u","v","w","x","y","z">>

IsUpper(c) == \E k \in 1..Len(UpperChars) : UpperChars[k] = c
ToLower(c) == LowerChars[CHOOSE k \in 1..Len(UpperChars) : UpperChars[k] = c]

\* helpers::camel_to_snake: every upper-case letter is lowered, with an
\* underscore before it unless it is the first character.
RECURSIVE CamelToSnakeFrom(_, _)
CamelToSnakeFrom(s, i) ==
    IF i > Len(s)
    THEN <<>>
    ELSE (IF IsUpper(s[i])
          THEN (IF i > 1 THEN <<"_">> ELSE <<>>) \o <<ToLower(s[i])>>
          ELSE <<s[i]>>)
         \o CamelToSnakeFrom(s, i + 1)

camel_to_snake(s) == CamelToSnakeFrom(s, 1)

(***************************************************************************)
(* Schema and query generator.                                             *)
(***************************************************************************)
ABIInput(name, type) == [name |-> name, type |-> type]
EventInfo(name, inputs) == [name |-> name, inputs |-> inputs]

\* generate_abi_name_properties: one property per input, in input order: the
\* snake_case column name, with the column type for PostgresWithDataTypes.
generate_abi_name_properties(inputs, property_type) ==
    [i \in 1..Len(inputs) |->
        IF property_type = "PostgresWithDataTypes"
        THEN [name |-> camel_to_snake(inputs[i].name),
              type |-> solidity_type_to_db_type(inputs[i].type)]
        ELSE [name |-> camel_to_snake(inputs[i].name)]]

generate_columns(inputs, property_type) ==
    generate_abi_name_properties(inputs, property_type)

generate_columns_with_data_types(inputs) ==
    generate_columns(inputs, "PostgresWithDataTypes")

generate_columns_names_only(inputs) ==
    generate_columns(inputs, "PostgresColumnsNamesOnly")

\* The slots a comma-separated list shows once items.join(", ") stands between
\* two commas of a format string: the join of no item is the empty text, which
\* still occupies one (empty) slot.
JoinedSlots(items, empty) == IF items = <<>> THEN <<empty>> ELSE items

indexer_contract_schema_name(indexer_name, contract_name) ==
    camel_to_snake(indexer_name) \o <<"_">> \o camel_to_snake(contract_name)

\* A plausible slip: an exclusive range, (1..count), one placeholder short.
generate_injected_param_Exclusive(count) ==
    [i \in 1..(count - 1) |-> [sigil |-> "$", n |-> i]]

\* generate_injected_param: VALUES($1, $2, ..., $count), as the list of its
\* placeholders.
generate_injected_param(count) ==
    [i \in 1..count |-> [sigil |-> "$", n |-> i]]

\* generated_insert_query_for_event: the INSERT text, as its table, the slots of
\* its column list and its placeholders.
generated_insert_query_for_event(event_info, indexer_name, contract_name) ==
    LET columns == generate_columns_names_only(event_info.inputs)
        schema_name == indexer_contract_schema_name(indexer_name, contract_name)
    IN  [table |-> schema_name \o <<".">> \o camel_to_snake(event_info.name),
         columns |-> <<n_contract_address>>
                        \o JoinedSlots([i \in 1..Len(columns) |-> columns[i].name], <<>>)
                        \o <<n_tx_hash, n_block_number, n_block_hash>>,
         values |-> generate_injected_param(4 + Len(columns))]

\* Flattening of a sequence of statement lists (push_str after push_str).
RECURSIVE Flatten(_)
Flatten(lists) ==
    IF lists = <<>> THEN <<>> ELSE Head(lists) \o Flatten(Tail(lists))

CreateSchemaStmt(name) == [stmt |-> "create_schema", name |-> name]
DropSchemaStmt(name) == [stmt |-> "drop_schema", name |-> name]
CreateTableStmt(table, columns) ==
    [stmt |-> "create_table", table |-> table, columns |-> columns]
SeedInsertStmt(table, network, on_conflict) ==
    [stmt |-> "insert", table |-> table, network |-> network, block |-> 0,
     on_conflict |-> on_conflict]

Column(name, type, pk) == [name |-> name, type |-> type, pk |-> pk]
EmptySlot == Column(<<>>, [name |-> "", len |-> 0, array |-> FALSE], FALSE)

ColumnTypeText(t) == [name |-> t.sql.name, len |-> t.sql.len, array |-> t.array]
PlainType(name, len) == [name |-> name, len |-> len, array |-> FALSE]

\* generate_event_table_sql: one CREATE TABLE IF NOT EXISTS per event, the fixed
\* columns around the joined event columns.
generate_event_table_sql(abi_inputs, schema_name) ==
    [e \in 1..Len(abi_inputs) |->
        LET event_info == abi_inputs[e]
            table_name == schema_name \o <<".">> \o camel_to_snake(event_info.name)
            columns == generate_columns_with_data_types(event_info.inputs)
        IN  CreateTableStmt(
                table_name,
                << Column(n_rindexer_id, PlainType("SERIAL", 0), TRUE),
                   Column(n_contract_address, PlainType("CHAR", 66), FALSE) >>
                \o JoinedSlots(
                       [i \in 1..Len(columns) |->
                           Column(columns[i].name, ColumnTypeText(columns[i].type),
                                  FALSE)],
                       EmptySlot)
                \o << Column(n_tx_hash, PlainType("CHAR", 66), FALSE),
                      Column(n_block_number, PlainType("NUMERIC", 0), FALSE),
                      Column(n_block_hash, PlainType("CHAR", 66), FALSE) >>)]

n_network == <<"n","e","t","w","o","r","k">>
n_last_synced_block == <<"l","a","s","t","_","s","y","n","c","e","d","_","b","l","o","c","k">>

\* A plausible slip: the seed written as an upsert, which puts an existing row
\* back to block 0.
SeedConflictClause_Upsert == "do_update"

\* The conflict clause of the seed insert: ON CONFLICT ("network") DO NOTHING.
SeedConflictClause == "do_nothing"

\* A slip of order: the seed inserts are put before the table they go into.
generate_internal_event_table_sql_SeedFirst(abi_inputs, schema_name, networks) ==
    Flatten(
        [e \in 1..Len(abi_inputs) |->
            LET table_name ==
                    n_rindexer_internal \o <<".">> \o schema_name \o <<"_">>
                        \o camel_to_snake(abi_inputs[e].name)
            IN  [n \in 1..Len(networks) |->
                    SeedInsertStmt(table_name, networks[n], SeedConflictClause)]
                \o << CreateTableStmt(
                          table_name,
                          << Column(n_network, PlainType("TEXT", 0), TRUE),
                             Column(n_last_synced_block, PlainType("NUMERIC", 0),
                                    FALSE) >>) >>])

\* generate_internal_event_table_sql: per event, the checkpoint table and then
\* one seed insert per network.
generate_internal_event_table_sql(abi_inputs, schema_name, networks) ==
    Flatten(
        [e \in 1..Len(abi_inputs) |->
            LET table_name ==
                    n_rindexer_internal \o <<".">> \o schema_name \o <<"_">>
                        \o camel_to_snake(abi_inputs[e].name)
            IN  << CreateTableStmt(
                       table_name,
                       << Column(n_network, PlainType("TEXT", 0), TRUE),
                          Column(n_last_synced_block, PlainType("NUMERIC", 0), FALSE) >>) >>
                \o [n \in 1..Len(networks) |->
                       SeedInsertStmt(table_name, networks[n], SeedConflictClause)]])

\* Option values: None is the empty sequence, Some(v) the sequence of v.
None == <<>>
Some(v) == <<v>>
IsSome(o) == o # None

\* ContractDetails and its three constructors.
ContractDetails(network, address, filter, factory) ==
    [network |-> network, address |-> address, filter |-> filter,
     factory |-> factory]
FixedAddress == "0xA11CE"
FilterOfTransfer == [event_name |-> "Transfer"]
FactoryOfPairs == [address |-> "0xFAC70", event_name |-> "PairCreated"]
new_with_address(network, address) ==
    ContractDetails(network, Some(address), None, None)
new_with_filter(network, filter) ==
    ContractDetails(network, None, Some(filter), None)
new_with_factory(network, factory) ==
    ContractDetails(network, None, None, Some(factory))

\* ContractDetails::indexing_contract_setup: the address when one is set, else
\* the factory when one is set, else the filter, unwrapped.
indexing_contract_setup(details) ==
    IF IsSome(details.address) THEN [mode |-> "Address", of |-> details.address[1]]
    ELSE IF IsSome(details.factory)
    THEN [mode |-> "Factory", of |-> details.factory[1]]
    ELSE IF IsSome(details.filter)
    THEN [mode |-> "Filter", of |-> details.filter[1]]
    ELSE [mode |-> "panic", of |-> None]

\* A slip of resolution: only a fixed address is reported.
address_FixedOnly(details) ==
    IF IsSome(details.address) THEN Some(details.address[1]) ELSE None

\* ContractDetails::address: the fixed address when one is set, else the
\* factory's address when a factory is set, else none.
address(details) ==
    IF IsSome(details.address) THEN Some(details.address[1])
    ELSE IF IsSome(details.factory) THEN Some(details.factory[1].address)
    ELSE None

\* IndexingContractSetup::is_filter for one binding.
DetailsIsFilter(details) ==
    indexing_contract_setup(details).mode \in {"Filter", "Factory"}

\* A slip of naming: the filter contract keeps its base name.
identify_filter_NoSuffix(contract) ==
    LET filter_count ==
            Cardinality({ d \in 1..Len(contract.details) :
                            DetailsIsFilter(contract.details[d]) })
    IN  IF filter_count > 0 /\ filter_count # Len(contract.details)
        THEN [panic |-> TRUE, name |-> contract.name, is_filter |-> FALSE]
        ELSE [panic |-> FALSE, name |-> contract.name,
              is_filter |-> filter_count > 0]

\* build::identify_filter: counts the bindings that are filters, panics when
\* some but not all are, and renames the contract when all are.
identify_filter(contract) ==
    LET filter_count ==
            Cardinality({ d \in 1..Len(contract.details) :
                            DetailsIsFilter(contract.details[d]) })
    IN  IF filter_count > 0 /\ filter_count # Len(contract.details)
        THEN [panic |-> TRUE, name |-> contract.name, is_filter |-> FALSE]
        ELSE IF filter_count > 0
        THEN [panic |-> FALSE, name |-> contract.name \o n_Filter,
              is_filter |-> TRUE]
        ELSE [panic |-> FALSE, name |-> contract.name, is_filter |-> FALSE]

\* build::is_filter: whether the contract's bindings use a filter mode.
is_filter(contract) ==
    \E d \in 1..Len(contract.details) : DetailsIsFilter(contract.details[d])

contract_name_to_filter_name(contract_name) == contract_name \o n_Filter

EffectiveContractName(contract) ==
    IF is_filter(contract)
    THEN contract_name_to_filter_name(contract.name)
    ELSE contract.name

\* Whether solidity_type_to_db_type panics on some input of some event.
PanicsOnEvents(events) ==
    \E e \in 1..Len(events) : \E i \in 1..Len(events[e].inputs) :
        ~solidity_type_to_db_type(events[e].inputs[i].type).ok

\* The statements create_tables_for_indexer_sql pushes for one contract: nothing
\* when the ABI cannot be read or its events cannot be extracted.
ContractCreateSql(indexer, contract) ==
    IF contract.abi_ok
    THEN LET schema_name ==
                 indexer_contract_schema_name(indexer.name,
                                              EffectiveContractName(contract))
             networks == [d \in 1..Len(contract.details) |->
                             contract.details[d].network]
         IN  <<CreateSchemaStmt(schema_name)>>
             \o generate_event_table_sql(contract.events, schema_name)
             \o generate_internal_event_table_sql(contract.events, schema_name,
                                                  networks)
    ELSE <<>>

\* create_tables_for_indexer_sql: the script as the list of its statements, or
\* the panic of the type mapper.
create_tables_for_indexer_sql(indexer) ==
    [panic |-> \E c \in 1..Len(indexer.contracts) :
                  /\ indexer.contracts[c].abi_ok
                  /\ PanicsOnEvents(indexer.contracts[c].events),
     stmts |-> <<CreateSchemaStmt(n_rindexer_internal)>>
               \o Flatten([c \in 1..Len(indexer.contracts) |->
                              ContractCreateSql(indexer, indexer.contracts[c])])]

\* drop_tables_for_indexer_sql: the internal schema first, then the schema of
\* each contract, each with CASCADE.
drop_tables_for_indexer_sql(indexer) ==
    <<DropSchemaStmt(n_rindexer_internal)>>
        \o [c \in 1..Len(indexer.contracts) |->
               DropSchemaStmt(
                   indexer_contract_schema_name(
                       indexer.name, EffectiveContractName(indexer.contracts[c])))]

(***************************************************************************)
(* The database, as far as the generated statements go.  db.rows is the    *)
(* heap of checkpoint rows in insertion order.                             *)
(***************************************************************************)
EmptyDb == [schemas |-> {}, tables |-> {}, rows |-> <<>>]

\* The index of the first occurrence of character c in s, 0 when there is none.
FirstIndexOf(s, c) ==
    IF \E i \in 1..Len(s) : s[i] = c
    THEN CHOOSE i \in 1..Len(s) : s[i] = c /\ \A j \in 1..(i - 1) : s[j] # c
    ELSE 0

SchemaOfTable(table) == SubSeq(table, 1, FirstIndexOf(table, ".") - 1)

TableExists(d, table) == \E t \in d.tables : t.name = table
TableOf(d, table) == CHOOSE t \in d.tables : t.name = table
HasPrimaryKey(t, column) ==
    \E i \in 1..Len(t.columns) : t.columns[i].name = column /\ t.columns[i].pk

\* A statement the parser rejects: a column list with an empty slot.
SyntaxError(stmt) ==
    /\ stmt.stmt = "create_table"
    /\ \E i \in 1..Len(stmt.columns) : stmt.columns[i].name = <<>>

DuplicateColumns(columns) ==
    \E i, j \in 1..Len(columns) : i # j /\ columns[i].name = columns[j].name

Failed(d) == [db |-> d, err |-> TRUE]
Done(d) == [db |-> d, err |-> FALSE]

\* CREATE SCHEMA IF NOT EXISTS.
ExecCreateSchema(d, stmt) ==
    Done([d EXCEPT !.schemas = @ \cup {stmt.name}])

\* CREATE TABLE IF NOT EXISTS.
ExecCreateTable(d, stmt) ==
    IF SchemaOfTable(stmt.table) \notin d.schemas THEN Failed(d)
    ELSE IF TableExists(d, stmt.table) THEN Done(d)
    ELSE IF DuplicateColumns(stmt.columns) THEN Failed(d)
    ELSE Done([d EXCEPT !.tables =
                  @ \cup {[name |-> stmt.table, columns |-> stmt.columns]}])

\* INSERT ... VALUES (network, 0) with its conflict clause on "network".
ExecInsert(d, stmt) ==
    IF ~TableExists(d, stmt.table) THEN Failed(d)
    ELSE IF ~HasPrimaryKey(TableOf(d, stmt.table), n_network) THEN Failed(d)
    ELSE LET hit == { k \in 1..Len(d.rows) :
                         /\ d.rows[k].table = stmt.table
                         /\ d.rows[k].network = stmt.network }
         IN  IF hit = {}
             THEN Done([d EXCEPT !.rows =
                           Append(@, [table |-> stmt.table,
                                      network |-> stmt.network,
                                      block |-> stmt.block])])
             ELSE IF stmt.on_conflict = "do_nothing" THEN Done(d)
             ELSE IF stmt.on_conflict = "do_update"
             THEN Done([d EXCEPT !.rows =
                           [k \in 1..Len(d.rows) |->
                               IF k \in hit
                               THEN [d.rows[k] EXCEPT !.block = stmt.block]
                               ELSE d.rows[k]]])
             ELSE Failed(d)

\* DROP SCHEMA IF EXISTS ... CASCADE: the schema goes with every table in it
\* and every row of those tables.
ExecDropSchema(d, stmt) ==
    LET Kept(row) == SchemaOfTable(row.table) # stmt.name
    IN  Done([schemas |-> d.schemas \ {stmt.name},
              tables |-> { t \in d.tables : SchemaOfTable(t.name) # stmt.name },
              rows |-> SelectSeq(d.rows, Kept)])

ExecStatement(d, stmt) ==
    CASE stmt.stmt = "create_schema" -> ExecCreateSchema(d, stmt)
      [] stmt.stmt = "drop_schema" -> ExecDropSchema(d, stmt)
      [] stmt.stmt = "create_table" -> ExecCreateTable(d, stmt)
      [] stmt.stmt = "insert" -> ExecInsert(d, stmt)

RECURSIVE ExecFrom(_, _, _)
ExecFrom(d, stmts, i) ==
    IF i > Len(stmts)
    THEN Done(d)
    ELSE LET r == ExecStatement(d, stmts[i])
         IN  IF r.err THEN r ELSE ExecFrom(r.db, stmts, i + 1)

\* conn.batch_execute(sql): the whole text is parsed first, and its statements
\* run as one implicit transaction, so that a failure leaves the database as it
\* was.
BatchExecuteSql(d, stmts) ==
    IF \E i \in 1..Len(stmts) : SyntaxError(stmts[i])
    THEN Failed(d)
    ELSE LET r == ExecFrom(d, stmts, 1)
         IN  IF r.err THEN Failed(d) ELSE r

(***************************************************************************)
(* Inputs of the generator.                                                *)
(***************************************************************************)
MaxInputs == 2

AbiInputs ==
    { ABIInput(n_from, s_address), ABIInput(n_value, s_uint256),
      ABIInput(n_ids, s_uint256 \o s_arr) }

EventNames == { n_Transfer, n_Paused, n_TransferBatch }
IndexerNames == { n_MyIndexer }
ContractNames == { n_Token, n_Token \o n_Filter }

EventInfos ==
    { EventInfo(n, ins) : n \in EventNames, ins \in SeqsUpTo(AbiInputs, MaxInputs) }

(***************************************************************************)
(* Startup inputs: the configurations setup_postgres is run on.            *)
(***************************************************************************)
MaxRuns == 2
MaxBlock == 2

Details(network, mode) ==
    CASE mode = "address" -> new_with_address(network, FixedAddress)
      [] mode = "filter" -> new_with_filter(network, FilterOfTransfer)
      [] mode = "factory" -> new_with_factory(network, FactoryOfPairs)
Contract(name, details, abi_ok, events) ==
    [name |-> name, details |-> details, abi_ok |-> abi_ok, events |-> events]
Indexer(name, contracts) == [name |-> name, contracts |-> contracts]
Manifest(indexers, disable, project_type) ==
    [indexers |-> indexers, disable_create_tables |-> disable,
     project_type |-> project_type]

n_Other == <<"O","t","h","e","r">>

e_Transfer ==
    EventInfo(n_Transfer, << ABIInput(n_from, s_address), ABIInput(n_to, s_address),
                             ABIInput(n_value, s_uint256) >>)
e_TransferBatch == EventInfo(n_TransferBatch, << ABIInput(n_ids, s_uint256 \o s_arr) >>)
e_Paused == EventInfo(n_Paused, <<>>)

c_Token ==
    Contract(n_Token, << Details(n_mainnet, "address"), Details(n_polygon, "address") >>,
             TRUE, << e_Transfer >>)
c_TokenFilter ==
    Contract(n_Token, << Details(n_mainnet, "filter") >>, TRUE, << e_Transfer >>)
c_TokenTwice ==
    Contract(n_Token, << Details(n_mainnet, "address"), Details(n_mainnet, "address") >>,
             TRUE, << e_Transfer, e_TransferBatch >>)
c_VaultPausable ==
    Contract(n_Vault, << Details(n_mainnet, "address") >>, TRUE,
             << e_Transfer, e_Paused >>)
c_VaultTuple ==
    Contract(n_Vault, << Details(n_mainnet, "address") >>, TRUE,
             << EventInfo(n_Transfer, << ABIInput(n_value, s_tuple) >>) >>)
c_VaultNoAbi ==
    Contract(n_Vault, << Details(n_polygon, "address") >>, FALSE, <<>>)

\* The configurations the startup is run on.
Manifests ==
    { Manifest(<< Indexer(n_MyIndexer, << c_Token >>) >>, FALSE, "Rust"),
      Manifest(<< Indexer(n_MyIndexer, << c_Token, c_TokenFilter >>) >>, FALSE, "Rust"),
      Manifest(<< Indexer(n_MyIndexer, << c_TokenTwice >>) >>, FALSE, "NoCode"),
      Manifest(<< Indexer(n_MyIndexer, << c_Token >>),
                  Indexer(n_Other, << c_VaultNoAbi, c_TokenFilter >>) >>, FALSE, "Rust"),
      Manifest(<< Indexer(n_MyIndexer, << c_VaultPausable >>) >>, FALSE, "Rust"),
      Manifest(<< Indexer(n_MyIndexer, << c_Token >>),
                  Indexer(n_Other, << c_VaultPausable >>) >>, FALSE, "Rust"),
      Manifest(<< Indexer(n_MyIndexer, << c_Token >>),
                  Indexer(n_Other, << c_VaultTuple >>) >>, FALSE, "Rust"),
      Manifest(<< Indexer(n_Other, << c_VaultPausable >>),
                  Indexer(n_MyIndexer, << c_Token >>) >>, FALSE, "Rust"),
      Manifest(<< Indexer(n_MyIndexer, << c_Token >>) >>, TRUE, "Rust"),
      Manifest(<< Indexer(n_MyIndexer, << c_Token >>) >>, TRUE, "NoCode") }

\* The contracts identify_filter is given: one name, every list of up to
\* MaxBindings bindings in the three discovery modes.
MaxBindings == 2
DiscoveryModes == {"address", "filter", "factory"}
BindingLists ==
    { [d \in 1..Len(modes) |->
          Details(IF d = 1 THEN n_mainnet ELSE n_polygon, modes[d])] :
        modes \in SeqsUpTo(DiscoveryModes, MaxBindings) \ {<<>>} }
BoundContracts ==
    { Contract(name, details, TRUE, << e_Transfer >>) :
        name \in {n_Token, n_Vault}, details \in BindingLists }

\* Every indexer of every configuration.
Indexers ==
    UNION { { m.indexers[i] : i \in 1..Len(m.indexers) } : m \in Manifests }

(***************************************************************************)
(* The storage client: a pool of connections, the server's session on each *)
(* connection, and the callers of the client.                              *)
(***************************************************************************)
PoolSize == 2
NumCallers == 2
MaxBatch == 2
MaxCalls == 2

\* The connections of the pool that was built: one session each.
Conns == DOMAIN srv
Callers == 1..NumCallers
NoConn == 0

SimpleOps ==
    {"batch_execute", "execute", "prepare", "query", "query_one", "query_one_or_none"}
WritingOps == {"batch_execute", "execute"}
\* The operations generic in T: ToStatement, which take the text of a query or
\* a prepared Statement.
StatementOps == {"execute", "query", "query_one", "query_one_or_none"}
Ops == SimpleOps \cup {"batch_insert", "transaction"}

FreshSession == [tx |-> FALSE, failed |-> FALSE, pending |-> {}]
IdleCall ==
    [op |-> "none", pc |-> "idle", conn |-> NoConn, n |-> 0, len |-> 0, i |-> 0,
     result |-> "none", attempts |-> 0, got |-> 0, log |-> <<>>,
     query |-> "text", ran_on |-> NoConn]
NoHandle == [state |-> "none", conn |-> NoConn, stmt |-> NoConn]

ClientIdle ==
    /\ idle = {1}
    /\ srv = << FreshSession >>
    /\ visible = {}
    /\ call = [p \in Callers |-> IdleCall]
    /\ handle = [p \in Callers |-> NoHandle]
    /\ crashed = FALSE

(***************************************************************************)
(* Pure functions applied to inputs drawn from bounded sets.               *)
(***************************************************************************)
NoneApplied == [fn |-> "none"]

\* The parts of the state a specification leaves alone.
SchemaIdle ==
    /\ manifest = [indexers |-> <<>>, disable_create_tables |-> FALSE,
                   project_type |-> "Rust"]
    /\ db = EmptyDb
    /\ setup = [pc |-> "off", i |-> 0, run |-> 0, new |-> "none", batches |-> <<>>]
    /\ ddlCount = <<>>
    /\ lastOp = [kind |-> "none"]

InitPure ==
    /\ applied = NoneApplied
    /\ SchemaIdle
    /\ ClientIdle

\* Each application is independent of the others: it starts from the state in
\* which nothing has been applied.
\* A caller maps one interface type both ways, as the generator does for a
\* column and the binding layer for its value.
\* The decoded value of a log parameter: the kind of Token the ABI decoder
\* gives for a declared type.
s_uint == <<"u","i","n","t">>
s_int == <<"i","n","t">>
Token(kind) == [kind |-> kind]
TokenOfType(abi_type) ==
    CASE EndsWith(abi_type, s_arr) -> Token("Array")
      [] abi_type = s_address -> Token("Address")
      [] abi_type = s_bool -> Token("Bool")
      [] abi_type = s_string -> Token("String")
      [] abi_type = s_bytes -> Token("Bytes")
      [] StartsWith(abi_type, s_bytes) -> Token("FixedBytes")
      [] StartsWith(abi_type, s_uint) -> Token("Uint")
      [] StartsWith(abi_type, s_int) -> Token("Int")
      [] OTHER -> Token("Tuple")

\* map_log_token_to_ethereum_wrapper: four kinds of token have an arm, every
\* other kind reaches panic!("Unsupported token type").
map_log_token_to_ethereum_wrapper(token) ==
    CASE token.kind = "Address" -> [panic |-> FALSE, variant |-> "Address"]
      [] token.kind \in {"Int", "Uint"} -> [panic |-> FALSE, variant |-> "U256"]
      [] token.kind = "Bool" -> [panic |-> FALSE, variant |-> "Bool"]
      [] token.kind = "String" -> [panic |-> FALSE, variant |-> "String"]
      [] OTHER -> [panic |-> TRUE, variant |-> "None"]

MapToken ==
    \E t \in SupportedTypeStrings :
        /\ applied = NoneApplied
        /\ applied' = [fn |-> "map_token", arg |-> t, token |-> TokenOfType(t),
                       res |-> map_log_token_to_ethereum_wrapper(TokenOfType(t)),
                       declared |-> solidity_type_to_ethereum_sql_type_wrapper(t)]
        /\ UNCHANGED <<schemaVars, clientVars>>

MapType ==
    \E t \in AbiTypeStrings :
        /\ applied = NoneApplied
        /\ applied' = [fn |-> "map_type", arg |-> t,
                    column |-> solidity_type_to_db_type(t),
                    variant |-> solidity_type_to_ethereum_sql_type_wrapper(t)]
        /\ UNCHANGED <<schemaVars, clientVars>>

\* The binding layer encodes one scalar value.
EncodeScalar ==
    \E variant \in ScalarVariants, ty \in PgTypes :
        \E value \in ScalarValues(variant) :
            /\ applied = NoneApplied
            /\ applied' = [fn |-> "to_sql", variant |-> variant, value |-> value,
                        ty |-> ty, res |-> to_sql(variant, value, ty)]
            /\ UNCHANGED <<schemaVars, clientVars>>

\* The binding layer encodes one array value.
EncodeArray ==
    \E variant \in VecVariants, ty \in PgTypes :
        \E value \in SeqsUpTo(MemberValues(variant), MaxArrayLen) :
            /\ applied = NoneApplied
            /\ applied' = [fn |-> "to_sql", variant |-> variant, value |-> value,
                        ty |-> ty, res |-> to_sql(variant, value, ty)]
            /\ UNCHANGED <<schemaVars, clientVars>>

\* The generator builds the insert statement of one event.
BuildInsertQuery ==
    \E event_info \in EventInfos, indexer_name \in IndexerNames,
       contract_name \in ContractNames :
        /\ applied = NoneApplied
        /\ applied' = [fn |-> "insert_query", event |-> event_info,
                    indexer_name |-> indexer_name, contract_name |-> contract_name,
                    res |-> generated_insert_query_for_event(
                                event_info, indexer_name, contract_name)]
        /\ UNCHANGED <<schemaVars, clientVars>>

\* The script of one indexer is applied to an empty database, and then again.
\* Two indexers are created in one database, then the first is dropped.
CreateThenDrop ==
    \E a, b \in Indexers :
        /\ applied = NoneApplied
        /\ a.name # b.name
        /\ LET sql_a == create_tables_for_indexer_sql(a)
               sql_b == create_tables_for_indexer_sql(b)
               created_a == BatchExecuteSql(EmptyDb, sql_a.stmts)
               created == BatchExecuteSql(created_a.db, sql_b.stmts)
           IN  applied' = [fn |-> "create_then_drop", a |-> a, b |-> b,
                           created_ok |-> /\ ~sql_a.panic /\ ~sql_b.panic
                                          /\ ~created_a.err /\ ~created.err,
                           created |-> created.db,
                           dropped |-> BatchExecuteSql(created.db,
                                                       drop_tables_for_indexer_sql(a))]
        /\ UNCHANGED <<schemaVars, clientVars>>

ApplyDdlTwice ==
    \E indexer \in Indexers :
        /\ applied = NoneApplied
        /\ LET sql == create_tables_for_indexer_sql(indexer)
               once == BatchExecuteSql(EmptyDb, sql.stmts)
               twice == BatchExecuteSql(once.db, sql.stmts)
           IN  applied' = [fn |-> "create_tables_twice", indexer |-> indexer,
                           panic |-> sql.panic, sql |-> sql.stmts,
                           once |-> once, twice |-> twice]
        /\ UNCHANGED <<schemaVars, clientVars>>

\* The generator identifies the discovery mode of one contract.
\* Names whose generated identifiers meet.
n_My == <<"M","y">>
n_IndexerToken == <<"I","n","d","e","x","e","r","T","o","k","e","n">>
n_TokenTransfer == <<"T","o","k","e","n","T","r","a","n","s","f","e","r">>
n_Batch == <<"B","a","t","c","h">>
IdentifierInputs ==
    [indexer : {n_MyIndexer, n_My},
     contract : {n_Token, n_IndexerToken, n_TokenTransfer},
     event : {n_TransferBatch, n_Batch}]

\* The name of the checkpoint table generate_internal_event_table_sql creates
\* for one event of a schema.
InternalTableName(schema_name, event_name) ==
    generate_internal_event_table_sql(
        << [name |-> event_name, inputs |-> <<>>] >>, schema_name, <<>>)[1].table

GenerateIdentifiers ==
    \E a, b \in IdentifierInputs :
        /\ applied = NoneApplied
        /\ applied' =
              [fn |-> "identifiers", a |-> a, b |-> b,
               schema_a |-> indexer_contract_schema_name(a.indexer, a.contract),
               schema_b |-> indexer_contract_schema_name(b.indexer, b.contract),
               table_a |-> InternalTableName(
                               indexer_contract_schema_name(a.indexer, a.contract),
                               a.event),
               table_b |-> InternalTableName(
                               indexer_contract_schema_name(b.indexer, b.contract),
                               b.event)]
        /\ UNCHANGED <<schemaVars, clientVars>>

\* Arguments of the three constructors.
Networks == {n_mainnet, n_polygon}
Addresses == {FixedAddress, "0xB0B"}
Filters == {FilterOfTransfer, [event_name |-> "Approval"]}
Factories == {FactoryOfPairs, [address |-> "0xFAC71", event_name |-> "PoolCreated"]}

ResolveDetails ==
    \E network \in Networks :
        /\ applied = NoneApplied
        /\ \/ \E a \in Addresses :
                 applied' = [fn |-> "contract_details", built_by |-> "new_with_address",
                             arg |-> a, details |-> new_with_address(network, a),
                             setup |-> indexing_contract_setup(new_with_address(network, a)),
                             address |-> address(new_with_address(network, a))]
           \/ \E f \in Filters :
                 applied' = [fn |-> "contract_details", built_by |-> "new_with_filter",
                             arg |-> f, details |-> new_with_filter(network, f),
                             setup |-> indexing_contract_setup(new_with_filter(network, f)),
                             address |-> address(new_with_filter(network, f))]
           \/ \E f \in Factories :
                 applied' = [fn |-> "contract_details", built_by |-> "new_with_factory",
                             arg |-> f, details |-> new_with_factory(network, f),
                             setup |-> indexing_contract_setup(new_with_factory(network, f)),
                             address |-> address(new_with_factory(network, f))]
        /\ UNCHANGED <<schemaVars, clientVars>>

IdentifyFilter ==
    \E contract \in BoundContracts :
        /\ applied = NoneApplied
        /\ applied' = [fn |-> "identify_filter", contract |-> contract,
                       res |-> identify_filter(contract)]
        /\ UNCHANGED <<schemaVars, clientVars>>

NextPure ==
    \/ MapToken
    \/ CreateThenDrop
    \/ ResolveDetails
    \/ GenerateIdentifiers
    \/ IdentifyFilter
    \/ ApplyDdlTwice
    \/ MapType
    \/ EncodeScalar
    \/ EncodeArray
    \/ BuildInsertQuery

SpecPure == InitPure /\ [][NextPure]_vars

(***************************************************************************)
(* C5: generated_insert_query_for_event produces exactly                   *)
(* 1 + |event.inputs| + 3 placeholders, numbered $1, $2, ..., $N           *)
(* contiguously, with no gap and no repeat.                                *)
(***************************************************************************)
C5_Placeholders ==
    applied.fn = "insert_query" =>
        /\ Len(applied.res.values) = 1 + Len(applied.event.inputs) + 3
        /\ \A i \in 1..Len(applied.res.values) :
              applied.res.values[i] = [sigil |-> "$", n |-> i]

C5_Witness ==
    /\ applied.fn = "insert_query"
    /\ Len(applied.event.inputs) = 2
    /\ Len(applied.res.values) = 6

(***************************************************************************)
(* C6: for every array variant, to_sql of an empty array yields SQL NULL   *)
(* and writes nothing, and to_sql of a non-empty array never yields NULL.  *)
(***************************************************************************)
C6_EmptyArrayIsNull ==
    (applied.fn = "to_sql" /\ applied.variant \in VecVariants) =>
        /\ applied.value = <<>> =>
              applied.res.null /\ applied.res.out = NothingWritten
        /\ applied.value # <<>> => ~applied.res.null

C6_Witness ==
    /\ applied.fn = "to_sql"
    /\ applied.variant = "VecBytes"
    /\ applied.value = <<>>
    /\ applied.ty.array
    /\ applied.res.null

(***************************************************************************)
(* C9: for every 256-bit unsigned value v, encoding U256(v) writes the     *)
(* full decimal digit string of v, of at most 78 characters, and parsing   *)
(* the stored text as a decimal integer yields v exactly.                  *)
(***************************************************************************)
DigitValue(c) == (CHOOSE k \in 1..10 : DigitChars[k] = c) - 1
IsDigit(c) == \E k \in 1..10 : DigitChars[k] = c

\* The value of a short run of digits.
ShortValue(text) ==
    LET n == Len(text)
        term[j \in 0..n] ==
            IF j = 0 THEN 0 ELSE term[j - 1] * 10 + DigitValue(text[j])
    IN  term[n]

\* The reader's parse of a decimal text into limbs, a group of digits at a time;
\* ok is false on overflow.
RECURSIVE ParseDecimalFrom(_, _, _)
ParseDecimalFrom(text, i, acc) ==
    IF i > Len(text)
    THEN [ok |-> TRUE, v |-> acc]
    ELSE LET last == IF i + 3 <= Len(text) THEN i + 3 ELSE Len(text)
             step == MulAdd(acc, 10^(last - i + 1), ShortValue(SubSeq(text, i, last)))
         IN  IF step.carry # 0
             THEN [ok |-> FALSE, v |-> acc]
             ELSE ParseDecimalFrom(text, last + 1, step.v)

ParseDecimal(text, n) ==
    IF text = <<>> \/ \E i \in 1..Len(text) : ~IsDigit(text[i])
    THEN [ok |-> FALSE, v |-> UintZero(n)]
    ELSE ParseDecimalFrom(text, 1, UintZero(n))

C9_U256RoundTrip ==
    (applied.fn = "to_sql" /\ applied.variant = "U256") =>
        /\ ~applied.res.null /\ ~applied.res.panic
        /\ applied.res.out.kind = "text"
        /\ Len(applied.res.out.body) <= 78
        /\ Len(applied.res.out.body) <= solidity_type_to_db_type(s_uint256).sql.len
        /\ (Len(applied.res.out.body) > 1 => applied.res.out.body[1] # "0")
        /\ ParseDecimal(applied.res.out.body, 16) = [ok |-> TRUE, v |-> applied.value]

C9_Witness ==
    /\ applied.fn = "to_sql"
    /\ applied.variant = "U256"
    /\ applied.value = UintMax(16)
    /\ Len(applied.res.out.body) = 78

(***************************************************************************)
(* C7: for every base type of the mapping table solidity_type_to_db_type   *)
(* returns exactly the listed column type, and with one trailing array     *)
(* marker the same column type with the array suffix.                      *)
(***************************************************************************)
ListedColumnType(base) ==
    CASE base = s_address -> SqlType("CHAR", 42)
      [] base = s_bool -> SqlType("BOOLEAN", 0)
      [] base \in {s_int256, s_uint256} -> SqlType("VARCHAR", 78)
      [] base \in {s_int64, s_uint64, s_int128, s_uint128} -> SqlType("NUMERIC", 0)
      [] base \in {s_int32, s_uint32} -> SqlType("INTEGER", 0)
      [] base = s_string -> SqlType("TEXT", 0)
      [] base \in {s_bytes, s_bytes32} -> SqlType("BYTEA", 0)
      [] base \in {s_int8, s_int16, s_uint8, s_uint16} -> SqlType("SMALLINT", 0)

C7_MappingTable ==
    applied.fn = "map_type" =>
        \A base \in ListedBaseTypes :
            /\ applied.arg = base =>
                  applied.column = [ok |-> TRUE, sql |-> ListedColumnType(base),
                                    array |-> FALSE]
            /\ applied.arg = base \o s_arr =>
                  applied.column = [ok |-> TRUE, sql |-> ListedColumnType(base),
                                    array |-> TRUE]

C7_Witness ==
    /\ applied.fn = "map_type"
    /\ applied.arg = s_uint32 \o s_arr
    /\ applied.column.array

(***************************************************************************)
(* C8: column_type and value_variant are defined on exactly the same type  *)
(* strings: both return a mapping for every supported string, and both     *)
(* report every other string as unsupported.                               *)
(***************************************************************************)
C8_SameDomain ==
    applied.fn = "map_type" =>
        /\ applied.arg \in SupportedTypeStrings =>
              applied.column.ok /\ applied.variant # "None"
        /\ applied.arg \notin SupportedTypeStrings =>
              ~applied.column.ok /\ applied.variant = "None"

(***************************************************************************)
(* Startup: setup_postgres over the manifest, and the checkpoint updates   *)
(* of the polling collaborator.                                            *)
(***************************************************************************)
InitSchema ==
    /\ applied = NoneApplied
    /\ manifest \in Manifests
    /\ db = EmptyDb
    /\ setup = [pc |-> "start", i |-> 0, run |-> 1, new |-> "none", batches |-> <<>>]
    /\ ddlCount = [i \in 1..Len(manifest.indexers) |-> 0]
    /\ lastOp = [kind |-> "none"]
    /\ ClientIdle

\* A slip of error handling: the function goes on after a failed step.
PropagatesError_Never(ok) == FALSE

\* The `?` after an await: the operation returns at once when the result is an
\* error.
PropagatesError(ok) == ~ok

\* A slip of the guard: the tables are created whatever the configuration says.
CreatesTables_Always(m) == TRUE

\* The test that guards the loop of setup_postgres: creation is not disabled,
\* or the project is a no-code one.
CreatesTables(m) == ~m.disable_create_tables \/ m.project_type = "NoCode"

\* PostgresClient::new().await? and the test that guards the loop.
SetupNew ==
    /\ setup.pc = "start"
    /\ \E built \in BOOLEAN :
          setup' = [setup EXCEPT
                      !.pc = IF PropagatesError(built) THEN "failed"
                             ELSE IF CreatesTables(manifest) THEN "loop"
                             ELSE "returned",
                      !.new = IF built THEN "ok" ELSE "failed",
                      !.i = 1]
    /\ lastOp' = [kind |-> "new"]
    /\ UNCHANGED <<applied, manifest, db, ddlCount, clientVars>>

\* One turn of the loop: the script of indexer setup.i through batch_execute.
SetupCreateTables ==
    /\ setup.pc = "loop"
    /\ setup.i <= Len(manifest.indexers)
    /\ LET sql == create_tables_for_indexer_sql(manifest.indexers[setup.i])
           r == BatchExecuteSql(db, sql.stmts)
       IN  IF sql.panic
           THEN /\ setup' = [setup EXCEPT !.pc = "panicked"]
                /\ lastOp' = [kind |-> "panic"]
                /\ UNCHANGED <<db, ddlCount>>
           ELSE /\ db' = r.db
                /\ ddlCount' = [ddlCount EXCEPT ![setup.i] = @ + 1]
                /\ lastOp' = [kind |-> "ddl", indexer |-> setup.i, err |-> r.err]
                /\ setup' = IF PropagatesError(~r.err)
                             THEN [setup EXCEPT
                                     !.pc = "failed",
                                     !.batches = Append(@, [indexer |-> setup.i,
                                                            err |-> r.err])]
                             ELSE [setup EXCEPT
                                     !.i = @ + 1,
                                     !.batches = Append(@, [indexer |-> setup.i,
                                                            err |-> r.err])]
    /\ UNCHANGED <<applied, manifest, clientVars>>

\* Ok(client) after the last indexer.
SetupReturn ==
    /\ setup.pc = "loop"
    /\ setup.i > Len(manifest.indexers)
    /\ setup' = [setup EXCEPT !.pc = "returned"]
    /\ lastOp' = [kind |-> "return"]
    /\ UNCHANGED <<applied, manifest, db, ddlCount, clientVars>>

\* The process is started again on the same configuration and database.
Restart ==
    /\ setup.pc \in {"returned", "failed"}
    /\ setup.run < MaxRuns
    /\ setup' = [pc |-> "start", i |-> 0, run |-> setup.run + 1, new |-> "none",
                 batches |-> <<>>]
    /\ lastOp' = [kind |-> "restart"]
    /\ UNCHANGED <<applied, manifest, db, ddlCount, clientVars>>

\* The polling collaborator moves one checkpoint row forward.
AdvanceCheckpoint ==
    /\ \E k \in 1..Len(db.rows) :
          /\ db.rows[k].block < MaxBlock
          /\ db' = [db EXCEPT !.rows[k].block = @ + 1]
    /\ lastOp' = [kind |-> "advance"]
    /\ UNCHANGED <<applied, manifest, setup, ddlCount, clientVars>>

NextSchema ==
    \/ SetupNew
    \/ SetupCreateTables
    \/ SetupReturn
    \/ Restart
    \/ AdvanceCheckpoint

SpecSchema == InitSchema /\ [][NextSchema]_vars

(***************************************************************************)
(* C3: applying the script of create_tables_for_indexer_sql twice to an    *)
(* empty database yields the same schemas, tables and checkpoint rows as   *)
(* applying it once, the second application raises no error, and it adds   *)
(* no duplicate seed row.                                                  *)
(***************************************************************************)
NoDuplicateSeed(d) ==
    \A j, k \in 1..Len(d.rows) :
        (d.rows[j].table = d.rows[k].table /\ d.rows[j].network = d.rows[k].network)
            => j = k

C3_Idempotent ==
    (applied.fn = "create_tables_twice" /\ ~applied.panic) =>
        /\ ~applied.twice.err
        /\ applied.twice.db = applied.once.db
        /\ NoDuplicateSeed(applied.twice.db)

(***************************************************************************)
(* C4: a checkpoint row that exists is left unchanged by a later run of    *)
(* the create-schema script, a seed row is added at block 0 only where no  *)
(* row for that network exists, and each checkpoint table holds exactly    *)
(* one row per bound network.                                              *)
(***************************************************************************)
CheckpointTableName(indexer, contract, event_info) ==
    n_rindexer_internal \o <<".">>
        \o indexer_contract_schema_name(indexer.name, EffectiveContractName(contract))
        \o <<"_">> \o camel_to_snake(event_info.name)

\* The networks the configuration binds to the contracts of a checkpoint table.
BoundNetworks(table) ==
    UNION { UNION { UNION {
        IF CheckpointTableName(manifest.indexers[i], manifest.indexers[i].contracts[c],
                               manifest.indexers[i].contracts[c].events[e]) = table
        THEN { manifest.indexers[i].contracts[c].details[d].network :
                 d \in 1..Len(manifest.indexers[i].contracts[c].details) }
        ELSE {} :
        e \in 1..Len(manifest.indexers[i].contracts[c].events) } :
        c \in 1..Len(manifest.indexers[i].contracts) } :
        i \in 1..Len(manifest.indexers) }

RowsOf(d, table, network) ==
    { k \in 1..Len(d.rows) : d.rows[k].table = table /\ d.rows[k].network = network }

OneRowPerBoundNetwork ==
    \A t \in db.tables :
        StartsWith(t.name, n_rindexer_internal \o <<".">>) =>
            /\ \A network \in BoundNetworks(t.name) :
                   Cardinality(RowsOf(db, t.name, network)) = 1
            /\ \A k \in 1..Len(db.rows) :
                   db.rows[k].table = t.name
                       => db.rows[k].network \in BoundNetworks(t.name)

DdlKeepsCheckpoints ==
    lastOp'.kind = "ddl" =>
        /\ Len(db'.rows) >= Len(db.rows)
        /\ \A k \in 1..Len(db.rows) : db'.rows[k] = db.rows[k]
        /\ \A k \in (Len(db.rows) + 1)..Len(db'.rows) :
               /\ db'.rows[k].block = 0
               /\ RowsOf(db, db'.rows[k].table, db'.rows[k].network) = {}

C4_CheckpointsSurvive ==
    /\ []OneRowPerBoundNetwork
    /\ [][DdlKeepsCheckpoints]_vars

C4_Witness ==
    /\ lastOp.kind = "ddl"
    /\ ~lastOp.err
    /\ ddlCount[lastOp.indexer] >= 2
    /\ LET stmts == create_tables_for_indexer_sql(manifest.indexers[lastOp.indexer]).stmts
       IN  \E k \in 1..Len(db.rows), j \in 1..Len(stmts) :
               /\ db.rows[k].block > 0
               /\ stmts[j].stmt = "insert"
               /\ stmts[j].table = db.rows[k].table
               /\ stmts[j].network = db.rows[k].network

(***************************************************************************)
(* The storage client in use: calls of its operations by concurrent        *)
(* callers, each await a step of its own.                                  *)
(***************************************************************************)
InitClient ==
    /\ applied = NoneApplied
    /\ SchemaIdle
    /\ \E max_size \in 1..PoolSize :
          /\ idle = 1..max_size
          /\ srv = [c \in 1..max_size |-> FreshSession]
    /\ visible = {}
    /\ call = [p \in Callers |-> IdleCall]
    /\ handle = [p \in Callers |-> NoHandle]
    /\ crashed = FALSE

\* The server's side of one session.
SrvBegin(s) == [s EXCEPT !.tx = TRUE]
SrvAccepts(s) == ~(s.tx /\ s.failed)
SrvInsert(s, row) == IF s.tx THEN [s EXCEPT !.pending = @ \cup {row}] ELSE s
SrvInsertVisible(s, vis, row) == IF s.tx THEN vis ELSE vis \cup {row}
SrvReject(s) == IF s.tx THEN [s EXCEPT !.failed = TRUE] ELSE s
SrvCommitVisible(s, vis) == IF s.tx /\ ~s.failed THEN vis \cup s.pending ELSE vis

\* The row a call writes: its caller, the number of the call, its position in
\* the batch (0 for a single statement).
RowOf(p, i) == <<p, call[p].n, i>>
HandleRow(p) == <<p, 0, 0>>

\* A slip of resource discipline: the connection is given back only when the
\* call succeeds.
ConnDroppedAtReturn_OnlyOnSuccess(ok) == ok

\* `conn` is a local of every operation: it is dropped, and so returned to the
\* pool, when the operation returns, by `?` as well as at the end.
ConnDroppedAtReturn(ok) == TRUE

Release(c, ok) == IF ConnDroppedAtReturn(ok) THEN idle \cup {c} ELSE idle

Returned(p, result) ==
    [call[p] EXCEPT !.pc = "done", !.conn = NoConn, !.result = result]

\* A slip of error handling: a rejection is swallowed and the call reports
\* success.
StatementResult_Swallowed(ok) == "Ok"

\* A statement's fate is carried out of the call as it is: .map_err(PgError)
\* turns a rejection into the call's error.
StatementResult(ok) == IF ok THEN "Ok" ELSE "PgError"

\* The record of one submission of the call's statement: for which parameter
\* set (0 for a single statement) and what became of it.
Submission(i, state) == [i |-> i, state |-> state]
Acknowledged(log, ok) ==
    [log EXCEPT ![Len(log)].state = IF ok THEN "ok" ELSE "rejected"]

\* The calls made so far, over all callers.
RECURSIVE CallsUpTo(_)
CallsUpTo(p) == IF p = 0 THEN 0 ELSE call[p].n + CallsUpTo(p - 1)
TotalCalls == CallsUpTo(NumCallers)

\* A caller enters one operation of the client.
StartCall(p) ==
    /\ ~crashed
    /\ call[p].pc \in {"idle", "done"}
    /\ TotalCalls < MaxCalls
    /\ \E op \in Ops :
          /\ op = "transaction" => handle[p].state = "none"
          /\ \E len \in IF op = "batch_insert" THEN 0..MaxBatch ELSE {0},
                query \in IF op \in StatementOps /\ handle[p].stmt # NoConn
                          THEN {"text", "statement"} ELSE {"text"} :
                call' = [call EXCEPT ![p] =
                           [op |-> op, pc |-> "acquire", conn |-> NoConn,
                            n |-> call[p].n + 1, len |-> len, i |-> 0,
                            result |-> "none", attempts |-> 0, got |-> 0,
                            log |-> <<>>, query |-> query, ran_on |-> NoConn]]
    /\ UNCHANGED <<applied, schemaVars, idle, srv, visible, handle, crashed>>

\* self.pool.get().await succeeds.
Acquire(p) ==
    /\ ~crashed
    /\ call[p].pc = "acquire"
    /\ \E c \in idle :
          /\ idle' = idle \ {c}
          /\ call' = [call EXCEPT ![p].conn = c,
                                  ![p].attempts = @ + 1,
                                  ![p].got = @ + 1,
                                  ![p].pc = IF call[p].op \in SimpleOps
                                            THEN "run" ELSE "begin"]
    /\ UNCHANGED <<applied, schemaVars, srv, visible, handle, crashed>>

\* self.pool.get().await fails: no connection came free in time.
AcquireFail(p) ==
    /\ ~crashed
    /\ call[p].pc = "acquire"
    /\ idle = {}
    /\ call' = [call EXCEPT ![p] =
                  [Returned(p, "ConnectionPoolError") EXCEPT !.attempts = @ + 1]]
    /\ UNCHANGED <<applied, schemaVars, idle, srv, visible, handle, crashed>>

\* A prepared statement lives in the session that prepared it: the server
\* knows it on that connection and on no other.
KnowsStatement(c, p) == handle[p].stmt = c

\* The one statement of batch_execute, execute, prepare, query, query_one or
\* query_one_or_none, and the return.  prepare returns the Statement to its
\* caller; a call given a Statement names it to the connection it acquired.
RunStatement(p) ==
    /\ ~crashed
    /\ call[p].pc = "run"
    /\ LET c == call[p].conn
       IN  \E ok \in BOOLEAN :
             /\ ok => SrvAccepts(srv[c])
             /\ (ok /\ call[p].query = "statement") => KnowsStatement(c, p)
             /\ handle' = IF ok /\ call[p].op = "prepare"
                          THEN [handle EXCEPT ![p].stmt = c]
                          ELSE handle
             /\ srv' = [srv EXCEPT ![c] =
                          IF ~ok THEN SrvReject(@)
                          ELSE IF call[p].op \in WritingOps
                          THEN SrvInsert(@, RowOf(p, 0))
                          ELSE @]
             /\ visible' = IF ok /\ call[p].op \in WritingOps
                           THEN SrvInsertVisible(srv[c], visible, RowOf(p, 0))
                           ELSE visible
             /\ idle' = Release(c, ok)
             /\ call' = [call EXCEPT ![p] =
                           [Returned(p, StatementResult(ok)) EXCEPT
                               !.ran_on = c,
                               !.log = Append(@, Submission(0, IF ok THEN "ok"
                                                               ELSE "rejected"))]]
    /\ UNCHANGED <<applied, schemaVars, crashed>>

\* conn.transaction().await of batch_insert and of transaction().  BEGIN inside
\* an open transaction is a warning, not an error.  transaction() returns here:
\* `conn` is dropped at its return while the handle lives on.
Begin(p) ==
    /\ ~crashed
    /\ call[p].pc = "begin"
    /\ LET c == call[p].conn
       IN  \E ok \in BOOLEAN :
             /\ ok => SrvAccepts(srv[c])
             /\ srv' = [srv EXCEPT ![c] = IF ok THEN SrvBegin(@) ELSE SrvReject(@)]
             /\ IF ~ok
                THEN /\ idle' = Release(c, FALSE)
                     /\ call' = [call EXCEPT ![p] = Returned(p, StatementResult(FALSE))]
                     /\ UNCHANGED handle
                ELSE IF call[p].op = "transaction"
                THEN /\ idle' = Release(c, TRUE)
                     /\ call' = [call EXCEPT ![p] = Returned(p, StatementResult(TRUE))]
                     /\ handle' = [handle EXCEPT ![p].state = "open", ![p].conn = c]
                ELSE /\ call' = [call EXCEPT ![p].pc = IF call[p].len = 0
                                                       THEN "commit" ELSE "exec",
                                             ![p].i = 1]
                     /\ UNCHANGED <<idle, handle>>
    /\ UNCHANGED <<applied, schemaVars, visible, crashed>>

\* One turn of batch_insert's loop, first half: transaction.execute(query,
\* &params_refs) submits the statement for parameter set i.
BatchSend(p) ==
    /\ ~crashed
    /\ call[p].pc = "exec"
    /\ call' = [call EXCEPT ![p].pc = "await",
                            ![p].log = Append(@, Submission(call[p].i, "sent"))]
    /\ UNCHANGED <<applied, schemaVars, idle, srv, visible, handle, crashed>>

\* Second half: .await gives the server's answer.  On a rejection `?` returns:
\* the transaction is dropped not done, which sends ROLLBACK, and `conn` is
\* dropped.
BatchExec(p) ==
    /\ ~crashed
    /\ call[p].pc = "await"
    /\ LET c == call[p].conn
       IN  \E ok \in BOOLEAN :
             /\ ok => SrvAccepts(srv[c])
             /\ IF PropagatesError(ok)
                THEN /\ srv' = [srv EXCEPT ![c] = FreshSession]
                     /\ idle' = Release(c, ok)
                     /\ call' = [call EXCEPT ![p] =
                                   [Returned(p, StatementResult(ok)) EXCEPT !.log =
                                       Acknowledged(@, ok)]]
                     /\ UNCHANGED visible
                ELSE /\ srv' = [srv EXCEPT ![c] =
                                  IF ok THEN SrvInsert(@, RowOf(p, call[p].i))
                                  ELSE SrvReject(@)]
                     /\ visible' = IF ok
                                   THEN SrvInsertVisible(srv[c], visible,
                                                         RowOf(p, call[p].i))
                                   ELSE visible
                     /\ call' = [call EXCEPT ![p].i = @ + 1,
                                             ![p].log = Acknowledged(@, ok),
                                             ![p].pc = IF call[p].i = call[p].len
                                                       THEN "commit" ELSE "exec"]
                     /\ UNCHANGED idle
    /\ UNCHANGED <<applied, schemaVars, handle, crashed>>

\* transaction.commit().await and the return.  COMMIT of a failed transaction
\* rolls it back and reports no error; a COMMIT the server refuses rolls back.
BatchCommit(p) ==
    /\ ~crashed
    /\ call[p].pc = "commit"
    /\ LET c == call[p].conn
       IN  \E ok \in BOOLEAN :
             /\ visible' = IF ok THEN SrvCommitVisible(srv[c], visible) ELSE visible
             /\ srv' = [srv EXCEPT ![c] = FreshSession]
             /\ idle' = Release(c, ok)
             /\ call' = [call EXCEPT ![p] = Returned(p, StatementResult(ok))]
    /\ UNCHANGED <<applied, schemaVars, handle, crashed>>

\* What a use of the handle can do: its reference to the connection dangles
\* once transaction() has returned, so the use either still reaches the
\* connection it was made on, or aborts the process.
HandleOutcomes == {"same_connection", "abort"}

Abort ==
    /\ crashed' = TRUE
    /\ srv' = [c \in Conns |-> FreshSession]
    /\ UNCHANGED <<idle, visible, call, handle>>

\* The owner executes a statement through its handle.
HandleExecute(p) ==
    /\ ~crashed
    /\ handle[p].state = "open"
    /\ call[p].pc \in {"idle", "done"}
    /\ HandleRow(p) \notin visible \cup srv[handle[p].conn].pending
    /\ \E outcome \in HandleOutcomes :
          IF outcome = "abort" THEN Abort
          ELSE LET c == handle[p].conn
               IN  \E ok \in BOOLEAN :
                     /\ ok => SrvAccepts(srv[c])
                     /\ srv' = [srv EXCEPT ![c] = IF ok THEN SrvInsert(@, HandleRow(p))
                                                  ELSE SrvReject(@)]
                     /\ visible' = IF ok
                                   THEN SrvInsertVisible(srv[c], visible, HandleRow(p))
                                   ELSE visible
                     /\ UNCHANGED <<idle, call, handle, crashed>>
    /\ UNCHANGED <<applied, schemaVars>>

\* The owner commits through its handle.
HandleCommit(p) ==
    /\ ~crashed
    /\ handle[p].state = "open"
    /\ call[p].pc \in {"idle", "done"}
    /\ \E outcome \in HandleOutcomes :
          IF outcome = "abort" THEN Abort
          ELSE LET c == handle[p].conn
               IN  /\ visible' = SrvCommitVisible(srv[c], visible)
                   /\ srv' = [srv EXCEPT ![c] = FreshSession]
                   /\ handle' = [handle EXCEPT ![p].state = "none", ![p].conn = NoConn]
                   /\ UNCHANGED <<idle, call, crashed>>
    /\ UNCHANGED <<applied, schemaVars>>

\* The owner rolls back through its handle, or drops it not done.
HandleRollback(p) ==
    /\ ~crashed
    /\ handle[p].state = "open"
    /\ call[p].pc \in {"idle", "done"}
    /\ \E outcome \in HandleOutcomes :
          IF outcome = "abort" THEN Abort
          ELSE LET c == handle[p].conn
               IN  /\ srv' = [srv EXCEPT ![c] = FreshSession]
                   /\ handle' = [handle EXCEPT ![p].state = "none", ![p].conn = NoConn]
                   /\ UNCHANGED <<idle, visible, call, crashed>>
    /\ UNCHANGED <<applied, schemaVars>>

NextClient ==
    \E p \in Callers :
        \/ StartCall(p)
        \/ Acquire(p)
        \/ AcquireFail(p)
        \/ RunStatement(p)
        \/ Begin(p)
        \/ BatchSend(p)
        \/ BatchExec(p)
        \/ BatchCommit(p)
        \/ HandleExecute(p)
        \/ HandleCommit(p)
        \/ HandleRollback(p)

SpecClient == InitClient /\ [][NextClient]_vars

(***************************************************************************)
(* C1: batch_insert is all-or-nothing: after it returns an error no row of *)
(* its batch is visible to any reader, no row of the batch is visible      *)
(* before the commit, and when it returns success all its rows are         *)
(* visible.                                                                *)
(***************************************************************************)
BatchRows(p) == { RowOf(p, i) : i \in 1..call[p].len }

C1_AllOrNothing ==
    \A p \in Callers :
        call[p].op = "batch_insert" =>
            /\ call[p].pc # "done" => BatchRows(p) \cap visible = {}
            /\ (call[p].pc = "done" /\ call[p].result # "Ok")
                   => BatchRows(p) \cap visible = {}
            /\ (call[p].pc = "done" /\ call[p].result = "Ok")
                   => BatchRows(p) \subseteq visible

(***************************************************************************)
(* C2: while a handle returned by transaction() is open, the connection it *)
(* runs on is not in the pool and is held by no other operation.           *)
(***************************************************************************)
C2_ConnectionNotInPool ==
    \A p \in Callers :
        handle[p].state = "open" =>
            /\ handle[p].conn \notin idle
            /\ \A q \in Callers : call[q].conn # handle[p].conn

(***************************************************************************)
(* C10: every call of batch_execute, execute, prepare, query, query_one,   *)
(* query_one_or_none and batch_insert makes one acquisition, holds exactly *)
(* the one connection it acquired while it runs, and has released it when  *)
(* it returns, with success or with an error; the connections checked out  *)
(* are exactly those of the calls in progress, so that none is checked out *)
(* once every call has returned.                                           *)
(***************************************************************************)
PoolingOps == SimpleOps \cup {"batch_insert"}
InProgress(p) == call[p].pc \in {"run", "begin", "exec", "await", "commit"}

C10_OneConnectionPerCall ==
    /\ \A p \in Callers :
          call[p].op \in PoolingOps =>
              /\ call[p].attempts <= 1
              /\ call[p].got <= call[p].attempts
              /\ InProgress(p) =>
                     /\ call[p].got = 1
                     /\ call[p].conn \in Conns \ idle
                     /\ \A q \in Callers \ {p} : call[q].conn # call[p].conn
              /\ call[p].pc = "done" =>
                     /\ call[p].attempts = 1
                     /\ call[p].conn = NoConn
                     /\ call[p].result # "ConnectionPoolError" => call[p].got = 1
    /\ Conns \ idle = { call[p].conn : p \in { q \in Callers : InProgress(q) } }
    /\ (\A p \in Callers : call[p].pc \in {"idle", "done"}) => idle = Conns

C10_Witness ==
    \E p \in Callers :
        /\ call[p].op = "batch_insert"
        /\ call[p].pc = "done"
        /\ call[p].result = "PgError"
        /\ call[p].i = 2
        /\ call[p].got = 1
        /\ idle = Conns
        /\ \E q \in Callers \ {p} :
              /\ call[q].op \in SimpleOps
              /\ call[q].pc = "done"
              /\ call[q].result = "Ok"
              /\ call[q].got = 1

(***************************************************************************)
(* C11: with any number of concurrent callers the connections in use never *)
(* exceed the pool's size, and a caller that asks for a connection while   *)
(* all are in use waits for a release and proceeds: it never receives an   *)
(* error.                                                                  *)
(***************************************************************************)
Holders == { p \in Callers : call[p].conn # NoConn }

C11_BoundedAndSuspends ==
    /\ Cardinality(Holders) <= Cardinality(Conns)
    /\ \A p, q \in Holders : call[p].conn = call[q].conn => p = q
    /\ \A p \in Callers : call[p].result # "ConnectionPoolError"

(***************************************************************************)
(* C12: no operation retries: a call makes at most one acquisition and     *)
(* submits each statement at most once; a failed acquisition is returned   *)
(* as ConnectionPoolError with no statement sent, and a rejected statement *)
(* is returned as PgError.                                                 *)
(***************************************************************************)
C12_NoRetry ==
    \A p \in Callers :
        LET c == call[p]
        IN  /\ c.attempts <= 1
            /\ \A j, k \in 1..Len(c.log) : c.log[j].i = c.log[k].i => j = k
            /\ Len(c.log) <= IF c.op = "batch_insert" THEN c.len ELSE 1
            /\ c.log # <<>> => c.got = 1
            /\ c.result = "ConnectionPoolError" => (c.log = <<>> /\ c.got = 0)
            /\ (c.pc = "done" /\ \E k \in 1..Len(c.log) : c.log[k].state = "rejected")
                   => c.result = "PgError"

C12_Witness ==
    \E p, q \in Callers :
        /\ call[p].pc = "done"
        /\ call[p].op = "execute"
        /\ call[p].result = "PgError"
        /\ call[p].log = << Submission(0, "rejected") >>
        /\ call[q].pc = "done"
        /\ call[q].result = "ConnectionPoolError"
        /\ call[q].log = <<>>

(***************************************************************************)
(* C13: within one batch_insert the statement is executed once per         *)
(* parameter set in input order, the execution for set i+1 is not started  *)
(* before the one for set i is acknowledged, and none is issued after the  *)
(* first failing one.                                                      *)
(***************************************************************************)
C13_InOrderSerialized ==
    \A p \in Callers :
        call[p].op = "batch_insert" =>
            LET log == call[p].log
            IN  /\ Len(log) <= call[p].len
                /\ \A k \in 1..Len(log) : log[k].i = k
                /\ \A k \in 1..(Len(log) - 1) : log[k].state = "ok"
                /\ (call[p].pc = "commit" \/ call[p].result = "Ok") =>
                       /\ Len(log) = call[p].len
                       /\ \A k \in 1..Len(log) : log[k].state = "ok"

C13_Witness ==
    \E p \in Callers :
        /\ call[p].op = "batch_insert"
        /\ call[p].pc = "done"
        /\ call[p].len = 2
        /\ call[p].log = << Submission(1, "ok"), Submission(2, "rejected") >>

(***************************************************************************)
(* C14: setup_postgres executes the create-schema batch once for every     *)
(* configured indexer, in configuration order, unless schema creation is   *)
(* disabled by configuration; when it is disabled no batch is executed,    *)
(* whatever the project type.                                              *)
(***************************************************************************)
BatchIndexers == [k \in 1..Len(setup.batches) |-> setup.batches[k].indexer]
AllIndexers == [k \in 1..Len(manifest.indexers) |-> k]

C14_DdlPerIndexerUnlessDisabled ==
    /\ \A k \in 1..Len(setup.batches) : setup.batches[k].indexer = k
    /\ manifest.disable_create_tables => setup.batches = <<>>
    /\ (setup.pc = "returned" /\ ~manifest.disable_create_tables)
           => BatchIndexers = AllIndexers

\* As the code has it: a no-code project gets its tables even when creation is
\* disabled; the batches stop at the first one that fails.
C14_DdlPerIndexerUnlessDisabledAndCoded ==
    /\ \A k \in 1..Len(setup.batches) : setup.batches[k].indexer = k
    /\ (manifest.disable_create_tables /\ manifest.project_type # "NoCode")
           => setup.batches = <<>>
    /\ (setup.pc = "returned" /\ ~manifest.disable_create_tables)
           => BatchIndexers = AllIndexers
    /\ (setup.pc = "returned" /\ manifest.project_type = "NoCode")
           => BatchIndexers = AllIndexers

C14_Witness ==
    /\ setup.pc = "returned"
    /\ manifest.disable_create_tables
    /\ manifest.project_type = "NoCode"
    /\ BatchIndexers = AllIndexers
    /\ setup.batches # <<>>

(***************************************************************************)
(* C15: setup_postgres fails fast: when the pool cannot be built no batch  *)
(* is executed, and when the batch of indexer i fails no batch of a later  *)
(* indexer is executed and no client is returned.                          *)
(***************************************************************************)
C15_FailFast ==
    /\ setup.new = "failed" => (setup.batches = <<>> /\ setup.pc = "failed")
    /\ setup.batches # <<>> => setup.new = "ok"
    /\ \A k \in 1..(Len(setup.batches) - 1) : ~setup.batches[k].err
    /\ (\E k \in 1..Len(setup.batches) : setup.batches[k].err)
           => setup.pc = "failed"

C15_Witness ==
    /\ setup.pc = "failed"
    /\ Len(manifest.indexers) = 2
    /\ Len(setup.batches) = 1
    /\ setup.batches[1].err

(***************************************************************************)
(* C16: identify_filter rejects every contract whose bindings do not all   *)
(* use the same discovery mode (any mix of address, filter and factory),   *)
(* and accepts a contract only when all its bindings use one mode.         *)
(***************************************************************************)
ModesOf(contract) ==
    { indexing_contract_setup(contract.details[d]).mode :
        d \in 1..Len(contract.details) }

C16_MixedModesRejected ==
    applied.fn = "identify_filter" =>
        (applied.res.panic <=> Cardinality(ModesOf(applied.contract)) > 1)

(***************************************************************************)
(* C17: the effective contract name carries the "Filter" suffix if and     *)
(* only if at least one binding of the contract uses filter or factory     *)
(* mode, so that a filter or factory contract and an address-mode contract *)
(* of the same base name under the same indexer get different schema       *)
(* identifiers.                                                            *)
(***************************************************************************)
UsesFilterOrFactory(contract) ==
    \E d \in 1..Len(contract.details) :
        indexing_contract_setup(contract.details[d]).mode \in {"Filter", "Factory"}

PosCreateSchema(stmts, name) ==
    IF \E k \in 1..Len(stmts) : stmts[k] = CreateSchemaStmt(name)
    THEN CHOOSE k \in 1..Len(stmts) :
             /\ stmts[k] = CreateSchemaStmt(name)
             /\ \A j \in 1..(k - 1) : stmts[j] # CreateSchemaStmt(name)
    ELSE 0

IsCreateOf(stmt, table) == stmt.stmt = "create_table" /\ stmt.table = table
IsSeedOf(stmt, table) == stmt.stmt = "insert" /\ stmt.table = table

PosCreateTable(stmts, table) ==
    IF \E k \in 1..Len(stmts) : IsCreateOf(stmts[k], table)
    THEN CHOOSE k \in 1..Len(stmts) :
             /\ IsCreateOf(stmts[k], table)
             /\ \A j \in 1..(k - 1) : ~IsCreateOf(stmts[j], table)
    ELSE 0

\* The (contract, event) pairs of an indexer that own a checkpoint table.
OwnersOf(indexer, table) ==
    { ce \in UNION { { <<c, e>> : e \in 1..Len(indexer.contracts[c].events) } :
                       c \in 1..Len(indexer.contracts) } :
        /\ indexer.contracts[ce[1]].abi_ok
        /\ CheckpointTableName(indexer, indexer.contracts[ce[1]],
                               indexer.contracts[ce[1]].events[ce[2]]) = table }

RECURSIVE SumOver(_, _)
SumOver(f, S) ==
    IF S = {} THEN 0
    ELSE LET x == CHOOSE y \in S : TRUE IN f[x] + SumOver(f, S \ {x})

InDependencyOrder(indexer, stmts) ==
    /\ stmts[1] = CreateSchemaStmt(n_rindexer_internal)
    /\ \A c \in 1..Len(indexer.contracts) :
          LET contract == indexer.contracts[c]
              schema_name ==
                  indexer_contract_schema_name(indexer.name,
                                               EffectiveContractName(contract))
          IN  contract.abi_ok =>
                /\ PosCreateSchema(stmts, schema_name) > 1
                /\ \A e \in 1..Len(contract.events) :
                      LET event_table ==
                              schema_name \o <<".">>
                                  \o camel_to_snake(contract.events[e].name)
                          checkpoint ==
                              CheckpointTableName(indexer, contract, contract.events[e])
                          owners == OwnersOf(indexer, checkpoint)
                      IN  /\ PosCreateSchema(stmts, schema_name)
                                 < PosCreateTable(stmts, event_table)
                          /\ PosCreateTable(stmts, event_table)
                                 < PosCreateTable(stmts, checkpoint)
                          /\ \A k \in 1..Len(stmts) :
                                 IsSeedOf(stmts[k], checkpoint)
                                     => PosCreateTable(stmts, checkpoint) < k
                          /\ \A d \in 1..Len(contract.details) :
                                 \E k \in 1..Len(stmts) :
                                     /\ IsSeedOf(stmts[k], checkpoint)
                                     /\ stmts[k].network = contract.details[d].network
                          /\ Cardinality({ k \in 1..Len(stmts) :
                                             IsSeedOf(stmts[k], checkpoint) })
                                 = SumOver([ce \in owners |->
                                               Len(indexer.contracts[ce[1]].details)],
                                           owners)

C18_DependencyOrder ==
    (applied.fn = "create_tables_twice" /\ ~applied.panic) =>
        InDependencyOrder(applied.indexer, applied.sql)

C18_Witness ==
    /\ applied.fn = "create_tables_twice"
    /\ ~applied.panic
    /\ \E c \in 1..Len(applied.indexer.contracts) :
          /\ applied.indexer.contracts[c].abi_ok
          /\ Len(applied.indexer.contracts[c].details) = 2
          /\ applied.indexer.contracts[c].events # <<>>
    /\ Len(applied.indexer.contracts) = 2
    /\ Len(applied.sql) >= 9

(***************************************************************************)
(* C19: DDL and DML agree: the table named by the insert statement of an   *)
(* (indexer, contract, event) is a table the create script of the same     *)
(* inputs creates, and the insert's column list is that table's columns    *)
(* without rindexer_id, in order: contract_address, the event's parameters *)
(* in ABI input order, tx_hash, block_number, block_hash.                  *)
(***************************************************************************)
ColumnNames(columns) == [i \in 1..Len(columns) |-> columns[i].name]

IndexerOfInsert ==
    Indexer(applied.indexer_name,
            << Contract(applied.contract_name, << Details(n_mainnet, "address") >>,
                        TRUE, << applied.event >>) >>)

C19_DdlDmlAgree ==
    (/\ applied.fn = "insert_query"
     /\ ~create_tables_for_indexer_sql(IndexerOfInsert).panic) =>
        LET stmts == create_tables_for_indexer_sql(IndexerOfInsert).stmts
            created == BatchExecuteSql(EmptyDb, stmts)
        IN  /\ applied.res.columns =
                   <<n_contract_address>>
                       \o [i \in 1..Len(applied.event.inputs) |->
                              camel_to_snake(applied.event.inputs[i].name)]
                       \o <<n_tx_hash, n_block_number, n_block_hash>>
            /\ \E k \in 1..Len(stmts) :
                   /\ IsCreateOf(stmts[k], applied.res.table)
                   /\ stmts[k].columns[1].name = n_rindexer_id
                   /\ Tail(ColumnNames(stmts[k].columns)) = applied.res.columns
            /\ ~created.err
            /\ TableExists(created.db, applied.res.table)

(***************************************************************************)
(* C20: every scalar variant is encoded in the wire form of its width      *)
(* class: U8, U16, U32 and Bool as the database's native integer or        *)
(* boolean value; U64, U128, U256 and U512 as decimal text; H128, H160,    *)
(* H256, H512 and Address as hex text; String unchanged as text and Bytes  *)
(* unchanged as binary.                                                    *)
(***************************************************************************)
AssignedWireForm(variant, value) ==
    CASE variant \in {"U8", "U16", "U32"} -> Wire("int", value)
      [] variant = "Bool" -> Wire("bool", IF value THEN <<1>> ELSE <<0>>)
      [] variant \in {"U64", "U128", "U256", "U512"} -> Wire("text", UintToString(value))
      [] variant \in {"H128", "H160", "H256", "H512", "Address"} ->
            Wire("text", HashDebug(value))
      [] variant = "String" -> Wire("text", value)
      [] variant = "Bytes" -> Wire("bytes", value)

C20_ScalarWireForms ==
    (applied.fn = "to_sql" /\ applied.variant \in ScalarVariants) =>
        applied.res = Written(AssignedWireForm(applied.variant, applied.value))

(***************************************************************************)
(* C21: a binding built by new_with_address, new_with_filter or            *)
(* new_with_factory has exactly one of address, filter and factory set;    *)
(* indexing_contract_setup returns the mode that is set, with the value    *)
(* given to the constructor; address() is the fixed address for an address *)
(* binding, the factory's address for a factory binding and none for a     *)
(* filter binding.                                                         *)
(***************************************************************************)
SetFields(details) ==
    { f \in {"address", "filter", "factory"} : IsSome(details[f]) }

C21_DiscoveryModeConsistent ==
    applied.fn = "contract_details" =>
        /\ Cardinality(SetFields(applied.details)) = 1
        /\ applied.built_by = "new_with_address" =>
              /\ SetFields(applied.details) = {"address"}
              /\ applied.setup = [mode |-> "Address", of |-> applied.arg]
              /\ applied.address = Some(applied.arg)
        /\ applied.built_by = "new_with_factory" =>
              /\ SetFields(applied.details) = {"factory"}
              /\ applied.setup = [mode |-> "Factory", of |-> applied.arg]
              /\ applied.address = Some(applied.arg.address)
        /\ applied.built_by = "new_with_filter" =>
              /\ SetFields(applied.details) = {"filter"}
              /\ applied.setup = [mode |-> "Filter", of |-> applied.arg]
              /\ applied.address = None

C21_Witness ==
    /\ applied.fn = "contract_details"
    /\ applied.built_by = "new_with_factory"
    /\ applied.address = Some("0xFAC71")

(***************************************************************************)
(* C22: the create script covers every contract of the indexer: whenever   *)
(* startup has applied the script of an indexer without an error, the      *)
(* schema of every contract of that indexer exists, with the event table   *)
(* and the checkpoint table of each of its events; a contract whose ABI    *)
(* cannot be read makes the step fail, it is never left out while startup  *)
(* goes on.                                                                *)
(***************************************************************************)
ContractCovered(indexer, contract) ==
    LET schema_name ==
            indexer_contract_schema_name(indexer.name, EffectiveContractName(contract))
    IN  /\ schema_name \in db.schemas
        /\ \A e \in 1..Len(contract.events) :
              /\ TableExists(db, schema_name \o <<".">>
                                    \o camel_to_snake(contract.events[e].name))
              /\ TableExists(db, CheckpointTableName(indexer, contract,
                                                     contract.events[e]))

C22_NoContractLeftOut ==
    \A k \in 1..Len(setup.batches) :
        ~setup.batches[k].err =>
            LET indexer == manifest.indexers[setup.batches[k].indexer]
            IN  \A c \in 1..Len(indexer.contracts) :
                    ContractCovered(indexer, indexer.contracts[c])

(***************************************************************************)
(* C23: for every event, an event without inputs included, the insert      *)
(* statement lists as many column names as it has placeholders, and every  *)
(* listed name is non-empty and is a column of the create-table statement  *)
(* of the event: no empty slot between contract_address and tx_hash.       *)
(***************************************************************************)
EventTableOfInsert ==
    generate_event_table_sql(
        << applied.event >>,
        indexer_contract_schema_name(applied.indexer_name, applied.contract_name))[1]

C23_NoEmptyColumnSlot ==
    applied.fn = "insert_query" =>
        /\ Len(applied.res.columns) = Len(applied.res.values)
        /\ EventTableOfInsert.table = applied.res.table
        /\ \A i \in 1..Len(applied.res.columns) :
              /\ applied.res.columns[i] # <<>>
              /\ \E j \in 1..Len(EventTableOfInsert.columns) :
                    EventTableOfInsert.columns[j].name = applied.res.columns[i]
        /\ \A j \in 1..Len(EventTableOfInsert.columns) :
              EventTableOfInsert.columns[j].name # <<>>

(***************************************************************************)
(* C24: a handle returned by prepare stays usable: for any pool size and   *)
(* any interleaving of callers, a later execute or query given the handle  *)
(* runs on the connection that prepared the statement, never on another    *)
(* pooled connection, which does not know it.                              *)
(***************************************************************************)
C24_PreparedHandleReusable ==
    \A p \in Callers :
        (call[p].query = "statement" /\ call[p].ran_on # NoConn) =>
            /\ call[p].ran_on = handle[p].stmt
            /\ KnowsStatement(call[p].ran_on, p)

(***************************************************************************)
(* C25: generated identifiers are collision-free: two distinct (indexer    *)
(* name, contract name) pairs never give the same schema identifier, and   *)
(* two distinct (schema identifier, event name) pairs never give the same  *)
(* checkpoint table name.                                                  *)
(***************************************************************************)
C25_CollisionFree ==
    applied.fn = "identifiers" =>
        /\ <<applied.a.indexer, applied.a.contract>>
               # <<applied.b.indexer, applied.b.contract>>
             => applied.schema_a # applied.schema_b
        /\ <<applied.schema_a, applied.a.event>> # <<applied.schema_b, applied.b.event>>
             => applied.table_a # applied.table_b

(***************************************************************************)
(* C26: the drop script is the inverse of create for its own indexer only: *)
(* applied after indexers A and B were created, the drop script of A       *)
(* removes every schema and checkpoint table of A and leaves every schema, *)
(* event table and checkpoint row of B unchanged.                          *)
(***************************************************************************)
SchemasOf(indexer) ==
    { indexer_contract_schema_name(indexer.name,
                                   EffectiveContractName(indexer.contracts[c])) :
        c \in 1..Len(indexer.contracts) }

CheckpointTablesOf(indexer) ==
    UNION { { CheckpointTableName(indexer, indexer.contracts[c],
                                  indexer.contracts[c].events[e]) :
                e \in 1..Len(indexer.contracts[c].events) } :
            c \in 1..Len(indexer.contracts) }

RowsIn(d, tables) ==
    { d.rows[k] : k \in { j \in 1..Len(d.rows) : d.rows[j].table \in tables } }

RemovedFrom(d, indexer) ==
    /\ d.schemas \cap SchemasOf(indexer) = {}
    /\ \A t \in d.tables :
          /\ SchemaOfTable(t.name) \notin SchemasOf(indexer)
          /\ t.name \notin CheckpointTablesOf(indexer)

EventTablesKept(before, after, indexer) ==
    /\ before.schemas \cap SchemasOf(indexer) = after.schemas \cap SchemasOf(indexer)
    /\ { t \in before.tables : SchemaOfTable(t.name) \in SchemasOf(indexer) }
           = { t \in after.tables : SchemaOfTable(t.name) \in SchemasOf(indexer) }

CheckpointsKept(before, after, indexer) ==
    /\ { t \in before.tables : t.name \in CheckpointTablesOf(indexer) }
           = { t \in after.tables : t.name \in CheckpointTablesOf(indexer) }
    /\ RowsIn(before, CheckpointTablesOf(indexer))
           = RowsIn(after, CheckpointTablesOf(indexer))

C26_DropOwnIndexerOnly ==
    (applied.fn = "create_then_drop" /\ applied.created_ok) =>
        /\ ~applied.dropped.err
        /\ RemovedFrom(applied.dropped.db, applied.a)
        /\ EventTablesKept(applied.created, applied.dropped.db, applied.b)
        /\ CheckpointsKept(applied.created, applied.dropped.db, applied.b)

(***************************************************************************)
(* C27: for every type the type mapper supports, the decoded token of that *)
(* type is mapped, without a panic, to the codec variant the type mapper   *)
(* selects for the declared type.                                          *)
(***************************************************************************)
C27_TokenMatchesDeclaredVariant ==
    applied.fn = "map_token" =>
        /\ ~applied.res.panic
        /\ applied.res.variant = applied.declared

====
